---- MODULE Spec2Model ----
(***************************************************************************)
(* Cross-domain session bridging of the multi-tenant dashboard server:     *)
(* login sessions, one-time tenant tokens (AuthService.tempAuthTokens),    *)
(* tenant sessions, the two session guards and the bootstrap middleware.   *)
(*                                                                         *)
(* Spec     : the controllers, guards and services of the Nest application,*)
(*            each request carrying the session object of its cookie scope *)
(*            (or no session object at all); requests go to login.lvh.me   *)
(*            and acme.lvh.me.                                             *)
(* SpecCorp : the same, with requests to login.lvh.me and acmecorp.lvh.me. *)
(* SpecHttp : the same handlers behind the middleware chain of bootstrap() *)
(*            (host-based session middleware, idle-timeout middleware,     *)
(*            csurf), with requests to login.lvh.me, acme.lvh.me and       *)
(*            tenant1.lvh.me.                                              *)
(* SpecRevoke, SpecStore, SpecConcurrent, SpecPings : the handlers with a  *)
(*            user store that changes, a session store that fails, and     *)
(*            requests in flight together.                                 *)
(* SpecClient : the useIdleTimeout hook of the browser client.             *)
(*                                                                         *)
(* Host names and tenant identifiers are sequences of characters, so that  *)
(* String.includes, split('.') and the host regular expression are         *)
(* computed as the code computes them.  Undefined JavaScript values are    *)
(* the falsy value of their type: "" , <<>>, {} and 0.                     *)
(***************************************************************************)
EXTENDS Integers, Sequences, FiniteSets, TLC

VARIABLES
  now,             \* Date.now(), in milliseconds
  ticks,           \* number of clock advances so far (bounds the clock)
  tempAuthTokens,  \* AuthService.tempAuthTokens : token -> {id, tenantId, expires}
  issued,          \* number of tokens generated so far; the next token is issued + 1
  sessions,        \* session store: per cookie scope (one per host) the session
  revokedTenants,  \* the tenants taken from the user in the user store since startup
  storeFails,      \* the session store answers a write with an error
  inFlight,        \* the verify-token requests in flight: per request its stage,
                   \* its host and token, its req.session and its result
  tokenLog,        \* history: what each token was issued for and what its
                   \* redemptions did
  idleExpired,     \* history: the scopes whose tenant session an idle timeout
                   \* destroyed and that no request with a session object has
                   \* used since
  client           \* the browser tab: the state of the useIdleTimeout hook

vars ==
  <<now, ticks, tempAuthTokens, issued, sessions, revokedTenants, storeFails,
    inFlight, tokenLog, idleExpired, client>>

----------------------------------------------------------------------------
(* Bounds of the model *)

MaxTokens == 2
MaxTicks == 1
MaxInFlight == 2
MaxClientSteps == 3

(* Program constants *)

TokenTtl == 30000
IdleTimeout == 1200000
MiddlewareIdleTimeout == 1200000

\* the clock advances by the token lifetime, by the idle timeout, or by one
\* millisecond more than the idle timeout
Steps == {TokenTtl, IdleTimeout, IdleTimeout + 1}

----------------------------------------------------------------------------
(* Strings *)

LvhMe == <<"l", "v", "h", ".", "m", "e">>
DotLvhMe == <<".">> \o LvhMe
Acme == <<"a", "c", "m", "e">>
Globex == <<"g", "l", "o", "b", "e", "x">>
Tenant1 == <<"t", "e", "n", "a", "n", "t", "1">>
TenantWord == <<"t", "e", "n", "a", "n", "t">>
Digits == {"0", "1", "2", "3", "4", "5", "6", "7", "8", "9"}

LoginHost == <<"l", "o", "g", "i", "n">> \o DotLvhMe
AcmeHost == Acme \o DotLvhMe
AcmeCorpHost == Acme \o <<"c", "o", "r", "p">> \o DotLvhMe
Tenant1Host == Tenant1 \o DotLvhMe
Tenant12Host == Tenant1 \o <<"2">> \o DotLvhMe

Hosts == {LoginHost, AcmeHost, AcmeCorpHost, Tenant1Host}
\* the hosts requests are sent to, under Spec, SpecCorp and SpecHttp
AppHosts == {LoginHost, AcmeHost}
CorpHosts == {LoginHost, AcmeCorpHost}
HttpHosts == {LoginHost, AcmeHost, Tenant1Host}
\* the tenants requests ask for
TenantIds == {Acme, Tenant1}
Tokens == 1..MaxTokens

\* String.prototype.includes
Includes(s, sub) ==
  \E i \in 0..(Len(s) - Len(sub)) : SubSeq(s, i + 1, i + Len(sub)) = sub

\* s.split('.')[0]
RECURSIVE FirstLabelLen(_, _)
FirstLabelLen(s, i) ==
  IF i > Len(s) \/ s[i] = "." THEN i - 1 ELSE FirstLabelLen(s, i + 1)

FirstLabel(s) == SubSeq(s, 1, FirstLabelLen(s, 1))

\* /^tenant\d+\.lvh\.me$/.test(hostname)
IsTenantHost(hostname) ==
  LET p == Len(TenantWord)
      q == Len(DotLvhMe)
      n == Len(hostname)
  IN  /\ n > p + q
      /\ SubSeq(hostname, 1, p) = TenantWord
      /\ SubSeq(hostname, n - q + 1, n) = DotLvhMe
      /\ \A i \in (p + 1)..(n - q) : hostname[i] \in Digits

----------------------------------------------------------------------------
(* UserService *)

NoRecord ==
  [id |-> "", email |-> "", name |-> "", password |-> "", tenants |-> {}]

\* the in-memory database; its code never changes it, and revokedTenants is
\* empty unless the store behind findById is changed from outside (SpecRevoke)
users ==
  { [id |-> "1", email |-> "john@example.com", name |-> "John Doe",
     password |-> "password123", tenants |-> {Acme, Globex} \ revokedTenants] }

Emails == {"john@example.com", "nobody@example.com"}
Passwords == {"password123", "wrong"}

findByEmail(email) ==
  IF \E u \in users : u.email = email
  THEN CHOOSE u \in users : u.email = email
  ELSE NoRecord

findById(id, tenantId) ==
  IF \E u \in users : u.id = id /\ tenantId \in u.tenants
  THEN CHOOSE u \in users : u.id = id /\ tenantId \in u.tenants
  ELSE NoRecord

----------------------------------------------------------------------------
(* Sessions *)

\* session.user.  user.lastAccess, which login and verifyTenantToken write and
\* no code reads, is left out: the guards read session.lastAccess.
NoUser ==
  [id |-> "", email |-> "", name |-> "", tenants |-> {}, tenant |-> <<>>]

\* no session in the store for the cookie scope
NoSession == [exists |-> FALSE, user |-> NoUser, lastAccess |-> 0]

\* the session express-session generates for a request without a stored one
EmptySession == [exists |-> TRUE, user |-> NoUser, lastAccess |-> 0]

\* express-session: req.session is the stored session of the scope, or a new one
AttachSession(stored) == IF stored.exists THEN stored ELSE EmptySession

\* a destroy that leaves the stored session in place
DestroySession_Keeps(session) == session

\* req.session.destroy()
DestroySession(session) == NoSession

----------------------------------------------------------------------------
(* AuthService: the token store *)

NoToken == [id |-> "", tenantId |-> <<>>, expires |-> 0]

MapSet(m, k, v) == [x \in DOMAIN m \cup {k} |-> IF x = k THEN v ELSE m[x]]
MapDelete(m, k) == [x \in DOMAIN m \ {k} |-> m[x]]

IsExpired(tokenData, t) == tokenData.expires < t

\* a sweep that also deletes the records that expire at this very millisecond
cleanExpiredTokens_AtExpiry(tokens, t) ==
  [k \in {x \in DOMAIN tokens : tokens[x].expires > t} |-> tokens[k]]

cleanExpiredTokens(tokens, t) ==
  [k \in {x \in DOMAIN tokens : ~IsExpired(tokens[x], t)} |-> tokens[k]]

\* an issue that keeps one pending token per user
generateTenantToken_Replaces(tokens, token, userId, tenantId, t) ==
  cleanExpiredTokens(
    MapSet([k \in {x \in DOMAIN tokens : tokens[x].id # userId} |-> tokens[k]],
           token,
           [id |-> userId, tenantId |-> tenantId, expires |-> t + TokenTtl]),
    t)

generateTenantToken(tokens, token, userId, tenantId, t) ==
  cleanExpiredTokens(
    MapSet(tokens, token,
           [id |-> userId, tenantId |-> tenantId, expires |-> t + TokenTtl]),
    t)

HostMatchesTenant(hostname, tenantId) == Includes(hostname, tenantId)

TenantSessionUser(id, tenantId) ==
  LET user == findById(id, tenantId)
  IN  [id |-> id,
       email |-> IF user.email # "" THEN user.email ELSE "unknown@example.com",
       name |-> "", tenants |-> {}, tenant |-> tenantId]

\* a redemption that forgets to delete the token
ConsumeToken_Keeps(tokens, token) == tokens

\* an expiry that forgets to delete the token
DropExpiredToken_Keeps(tokens, token) == tokens

\* this.tempAuthTokens.delete(token), after a redemption and after an expiry
ConsumeToken(tokens, token) == MapDelete(tokens, token)

DropExpiredToken(tokens, token) == MapDelete(tokens, token)

MsgInvalidToken == "Invalid or expired token"
MsgTokenExpired == "Token expired"
MsgInvalidTenant == "Invalid tenant"
MsgNoSessionObject == "Session not available"

\* a verification that destroys the session of a request with an unknown token
verifyTenantToken_UnknownDestroys(tokens, token, hostname, hasSession, session, t) ==
  IF token \notin DOMAIN tokens
  THEN [success |-> FALSE, message |-> MsgInvalidToken,
        tokens |-> tokens, session |-> DestroySession(session)]
  ELSE IF IsExpired(tokens[token], t)
  THEN [success |-> FALSE, message |-> MsgTokenExpired,
        tokens |-> DropExpiredToken(tokens, token), session |-> session]
  ELSE IF ~HostMatchesTenant(hostname, tokens[token].tenantId)
  THEN [success |-> FALSE, message |-> MsgInvalidTenant,
        tokens |-> tokens, session |-> session]
  ELSE IF ~hasSession
  THEN [success |-> FALSE, message |-> MsgNoSessionObject,
        tokens |-> tokens, session |-> session]
  ELSE [success |-> TRUE, message |-> "ok",
        tokens |-> ConsumeToken(tokens, token),
        session |-> [exists |-> TRUE,
                     user |-> TenantSessionUser(tokens[token].id,
                                                tokens[token].tenantId),
                     lastAccess |-> t]]

\* a verification that deletes a token used on the wrong host
verifyTenantToken_MismatchBurns(tokens, token, hostname, hasSession, session, t) ==
  IF token \notin DOMAIN tokens
  THEN [success |-> FALSE, message |-> MsgInvalidToken,
        tokens |-> tokens, session |-> session]
  ELSE IF IsExpired(tokens[token], t)
  THEN [success |-> FALSE, message |-> MsgTokenExpired,
        tokens |-> DropExpiredToken(tokens, token), session |-> session]
  ELSE IF ~HostMatchesTenant(hostname, tokens[token].tenantId)
  THEN [success |-> FALSE, message |-> MsgInvalidTenant,
        tokens |-> MapDelete(tokens, token), session |-> session]
  ELSE IF ~hasSession
  THEN [success |-> FALSE, message |-> MsgNoSessionObject,
        tokens |-> tokens, session |-> session]
  ELSE [success |-> TRUE, message |-> "ok",
        tokens |-> ConsumeToken(tokens, token),
        session |-> [exists |-> TRUE,
                     user |-> TenantSessionUser(tokens[token].id,
                                                tokens[token].tenantId),
                     lastAccess |-> t]]

\* a verification that deletes the token when the request has no session object
verifyTenantToken_NoSessionBurns(tokens, token, hostname, hasSession, session, t) ==
  IF token \notin DOMAIN tokens
  THEN [success |-> FALSE, message |-> MsgInvalidToken,
        tokens |-> tokens, session |-> session]
  ELSE IF IsExpired(tokens[token], t)
  THEN [success |-> FALSE, message |-> MsgTokenExpired,
        tokens |-> DropExpiredToken(tokens, token), session |-> session]
  ELSE IF ~HostMatchesTenant(hostname, tokens[token].tenantId)
  THEN [success |-> FALSE, message |-> MsgInvalidTenant,
        tokens |-> tokens, session |-> session]
  ELSE IF ~hasSession
  THEN [success |-> FALSE, message |-> MsgNoSessionObject,
        tokens |-> ConsumeToken(tokens, token), session |-> session]
  ELSE [success |-> TRUE, message |-> "ok",
        tokens |-> ConsumeToken(tokens, token),
        session |-> [exists |-> TRUE,
                     user |-> TenantSessionUser(tokens[token].id,
                                                tokens[token].tenantId),
                     lastAccess |-> t]]

verifyTenantToken(tokens, token, hostname, hasSession, session, t) ==
  IF token \notin DOMAIN tokens
  THEN [success |-> FALSE, message |-> MsgInvalidToken,
        tokens |-> tokens, session |-> session]
  ELSE IF IsExpired(tokens[token], t)
  THEN [success |-> FALSE, message |-> MsgTokenExpired,
        tokens |-> DropExpiredToken(tokens, token), session |-> session]
  ELSE IF ~HostMatchesTenant(hostname, tokens[token].tenantId)
  THEN [success |-> FALSE, message |-> MsgInvalidTenant,
        tokens |-> tokens, session |-> session]
  ELSE IF ~hasSession
  THEN [success |-> FALSE, message |-> MsgNoSessionObject,
        tokens |-> tokens, session |-> session]
  ELSE [success |-> TRUE, message |-> "ok",
        tokens |-> ConsumeToken(tokens, token),
        session |-> [exists |-> TRUE,
                     user |-> TenantSessionUser(tokens[token].id,
                                                tokens[token].tenantId),
                     lastAccess |-> t]]

----------------------------------------------------------------------------
(* AuthService: login *)

\* a validation that returns the user record as the user service holds it
validateUserForLogin_Unsanitized(email, password) ==
  LET user == findByEmail(email)
  IN  IF user = NoRecord THEN NoRecord
      ELSE IF user.password = password THEN user
      ELSE NoRecord

validateUserForLogin(email, password) ==
  LET user == findByEmail(email)
  IN  IF user = NoRecord THEN NoRecord
      ELSE IF user.password = password THEN [user EXCEPT !.password = ""]
      ELSE NoRecord

\* a login that binds the user's first tenant to the login session
LoginSessionUser_BindsTenant(user) ==
  [id |-> user.id, email |-> user.email, name |-> user.name,
   tenants |-> user.tenants,
   tenant |-> IF Acme \in user.tenants THEN Acme ELSE <<>>]

LoginSessionUser(user) ==
  [id |-> user.id, email |-> user.email, name |-> user.name,
   tenants |-> user.tenants, tenant |-> <<>>]

\* req.session.save(callback): the store calls back with an error
SessionSaveFails == storeFails

MsgErrorSavingSession == "Error saving session"

\* the user of the login response: {id, email, name, tenants}
LoginResponseUser(user) ==
  [id |-> user.id, email |-> user.email, name |-> user.name,
   tenants |-> user.tenants]

\* a login that drops the user of the session when the credentials are refused
login_ClearsOnFailure(session, hasSession, email, password, t) ==
  LET user == validateUserForLogin(email, password)
  IN  IF user = NoRecord
      THEN [session |-> [session EXCEPT !.user = NoUser], status |-> 401, reason |-> "Invalid credentials",
            body |-> LoginResponseUser(NoRecord)]
      ELSE IF ~hasSession
      THEN [session |-> session, status |-> 500, reason |-> "TypeError",
            body |-> LoginResponseUser(NoRecord)]
      ELSE IF SessionSaveFails
      THEN [session |-> [session EXCEPT !.user = LoginSessionUser(user)],
            status |-> 500, reason |-> MsgErrorSavingSession,
            body |-> LoginResponseUser(NoRecord)]
      ELSE [session |-> [session EXCEPT !.user = LoginSessionUser(user)],
            status |-> 200, reason |-> "ok", body |-> LoginResponseUser(user)]

\* a login that calls req.session.save() without waiting for its callback
login_IgnoresSaveError(session, hasSession, email, password, t) ==
  LET user == validateUserForLogin(email, password)
  IN  IF user = NoRecord
      THEN [session |-> session, status |-> 401, reason |-> "Invalid credentials",
            body |-> LoginResponseUser(NoRecord)]
      ELSE IF ~hasSession
      THEN [session |-> session, status |-> 500, reason |-> "TypeError",
            body |-> LoginResponseUser(NoRecord)]
      ELSE [session |-> [session EXCEPT !.user = LoginSessionUser(user)],
            status |-> 200, reason |-> "ok", body |-> LoginResponseUser(user)]

login(session, hasSession, email, password, t) ==
  LET user == validateUserForLogin(email, password)
  IN  IF user = NoRecord
      THEN [session |-> session, status |-> 401, reason |-> "Invalid credentials",
            body |-> LoginResponseUser(NoRecord)]
      ELSE IF ~hasSession
      THEN [session |-> session, status |-> 500, reason |-> "TypeError",
            body |-> LoginResponseUser(NoRecord)]
      ELSE IF SessionSaveFails
      THEN [session |-> [session EXCEPT !.user = LoginSessionUser(user)],
            status |-> 500, reason |-> MsgErrorSavingSession,
            body |-> LoginResponseUser(NoRecord)]
      ELSE [session |-> [session EXCEPT !.user = LoginSessionUser(user)],
            status |-> 200, reason |-> "ok", body |-> LoginResponseUser(user)]

----------------------------------------------------------------------------
(* LoginSessionGuard *)

\* a redirect for every request that names a tenant, whatever its route
handleLoginRedirect_AnyRoute(session, urlHasLogin, tenantId) ==
  IF tenantId # <<>>
  THEN [allow |-> FALSE, session |-> session, status |-> 302,
        reason |-> "Redirect to login", hint |-> tenantId]
  ELSE [allow |-> FALSE, session |-> session, status |-> 401,
        reason |-> "Unauthorized - Please log in", hint |-> <<>>]

\* handleLoginRedirect: redirect to http://login.lvh.me:3000/login?tenantId=
\* (hint), or throw 'Unauthorized - Please log in'
handleLoginRedirect(session, urlHasLogin, tenantId) ==
  IF urlHasLogin /\ tenantId # <<>>
  THEN [allow |-> FALSE, session |-> session, status |-> 302,
        reason |-> "Redirect to login", hint |-> tenantId]
  ELSE [allow |-> FALSE, session |-> session, status |-> 401,
        reason |-> "Unauthorized - Please log in", hint |-> <<>>]

\* the catch block of canActivate
LoginGuardCatch(session, urlHasLogin, tenantId) ==
  IF tenantId # <<>>
  THEN handleLoginRedirect(session, urlHasLogin, tenantId)
  ELSE [allow |-> FALSE, session |-> session, status |-> 401,
        reason |-> "Unauthorized", hint |-> <<>>]

LoginGuardUser(user) ==
  [id |-> user.id, email |-> user.email, name |-> user.name,
   tenants |-> user.tenants, tenant |-> <<>>]

\* a guard that only looks for the session object, not for its user
LoginSessionGuard_SessionOnly(session, hasSession, host, urlHasLogin, tenantId) ==
  IF ~hasSession
  THEN LET r == handleLoginRedirect(session, urlHasLogin, tenantId)
       IN  IF r.status = 302 THEN r
           ELSE LoginGuardCatch(session, urlHasLogin, tenantId)
  ELSE IF ~Includes(host, LvhMe)
  THEN LoginGuardCatch(session, urlHasLogin, tenantId)
  ELSE [allow |-> TRUE,
        session |-> [session EXCEPT !.user = LoginGuardUser(session.user)],
        status |-> 200, reason |-> "ok", hint |-> <<>>]

LoginSessionGuard(session, hasSession, host, urlHasLogin, tenantId) ==
  IF ~hasSession \/ session.user = NoUser
  THEN LET r == handleLoginRedirect(session, urlHasLogin, tenantId)
       IN  IF r.status = 302 THEN r
           ELSE LoginGuardCatch(session, urlHasLogin, tenantId)
  ELSE IF ~Includes(host, LvhMe)
  THEN LoginGuardCatch(session, urlHasLogin, tenantId)
  ELSE [allow |-> TRUE,
        session |-> [session EXCEPT !.user = LoginGuardUser(session.user)],
        status |-> 200, reason |-> "ok", hint |-> <<>>]

----------------------------------------------------------------------------
(* TenantSessionGuard *)

MsgNoSession == "No session found"
MsgNotAuthenticated == "User not authenticated"
MsgSessionExpired == "Session expired due to inactivity"
MsgNoTenant == "No tenant specified"
MsgTenantMismatch == "Tenant mismatch"

\* what the guard exposes downstream as req.user
NoReqUser == [id |-> "", tenantId |-> <<>>]

\* req.session.destroy(callback): the store calls back with an error
SessionDestroyFails == storeFails

\* reject(new Error(err)) in the callback of destroy
MsgDestroyError == "Error destroying session after timeout"

\* a missing lastAccess read as time 0
IdleExpired_MissingIsEpoch(lastAccess, t) ==
  LET lastActivity == IF lastAccess # 0 THEN lastAccess ELSE 0
  IN  t - lastActivity > IdleTimeout

IdleExpired(lastAccess, t) ==
  LET lastActivity == IF lastAccess # 0 THEN lastAccess ELSE t
  IN  t - lastActivity > IdleTimeout

\* reason is the exception thrown in the try block; the catch block replaces
\* every one of them by UnauthorizedException('Unauthorized')
TenantGuardReject(session, reason) ==
  [allow |-> FALSE, session |-> session, status |-> 401, reason |-> reason,
   message |-> "Unauthorized", user |-> NoReqUser]

\* a guard that reports the expiry without waiting for the destroy
TenantSessionGuard_DestroyNotAwaited(session, hasSession, hostname, t) ==
  IF ~hasSession THEN TenantGuardReject(session, MsgNoSession)
  ELSE IF session.user = NoUser
  THEN TenantGuardReject(session, MsgNotAuthenticated)
  ELSE IF IdleExpired(session.lastAccess, t)
  THEN IF SessionDestroyFails
       THEN TenantGuardReject(session, MsgSessionExpired)
       ELSE TenantGuardReject(DestroySession(session), MsgSessionExpired)
  ELSE LET refreshed == [session EXCEPT !.lastAccess = t]
       IN  IF hostname = LoginHost
           THEN [allow |-> TRUE, session |-> refreshed, status |-> 200,
                 reason |-> "ok", message |-> "ok",
                 user |-> [id |-> session.user.id, tenantId |-> <<>>]]
           ELSE IF session.user.tenant = <<>>
           THEN TenantGuardReject(refreshed, MsgNoTenant)
           ELSE IF ~Includes(hostname, session.user.tenant)
           THEN TenantGuardReject(refreshed, MsgTenantMismatch)
           ELSE [allow |-> TRUE, session |-> refreshed, status |-> 200,
                 reason |-> "ok", message |-> "ok",
                 user |-> [id |-> session.user.id,
                           tenantId |-> session.user.tenant]]

TenantSessionGuard(session, hasSession, hostname, t) ==
  IF ~hasSession THEN TenantGuardReject(session, MsgNoSession)
  ELSE IF session.user = NoUser
  THEN TenantGuardReject(session, MsgNotAuthenticated)
  ELSE IF IdleExpired(session.lastAccess, t)
  THEN IF SessionDestroyFails
       THEN TenantGuardReject(session, MsgDestroyError)
       ELSE TenantGuardReject(DestroySession(session), MsgSessionExpired)
  ELSE LET refreshed == [session EXCEPT !.lastAccess = t]
       IN  IF hostname = LoginHost
           THEN [allow |-> TRUE, session |-> refreshed, status |-> 200,
                 reason |-> "ok", message |-> "ok",
                 user |-> [id |-> session.user.id, tenantId |-> <<>>]]
           ELSE IF session.user.tenant = <<>>
           THEN TenantGuardReject(refreshed, MsgNoTenant)
           ELSE IF ~Includes(hostname, session.user.tenant)
           THEN TenantGuardReject(refreshed, MsgTenantMismatch)
           ELSE [allow |-> TRUE, session |-> refreshed, status |-> 200,
                 reason |-> "ok", message |-> "ok",
                 user |-> [id |-> session.user.id,
                           tenantId |-> session.user.tenant]]

----------------------------------------------------------------------------
(* AuthController *)

\* a tenant check that grants every tenant
UserHasTenant_Always(userTenants, tenantId) == TRUE

UserHasTenant(userTenants, tenantId) == tenantId \in userTenants

MsgTenantNotGranted == "User does not have access to tenant"

\* initSession, after LoginSessionGuard has allowed the request
initSession(session, tenantId, tokens, token, t) ==
  IF session.user.id = ""
  THEN [status |-> 401, reason |-> MsgNotAuthenticated, tokens |-> tokens,
        token |-> 0]
  ELSE IF ~UserHasTenant(session.user.tenants, tenantId)
  THEN [status |-> 401, reason |-> MsgTenantNotGranted, tokens |-> tokens,
        token |-> 0]
  ELSE [status |-> 301, reason |-> "ok",
        tokens |-> generateTenantToken(tokens, token, session.user.id,
                                       tenantId, t),
        token |-> token]

logout(session, hasSession) ==
  IF ~hasSession \/ SessionDestroyFails
  THEN [session |-> session, status |-> 500, reason |-> "Logout failed"]
  ELSE [session |-> DestroySession(session), status |-> 200,
        reason |-> "Logout successful"]

\* a validation that only looks for the session object
validateSession_SessionOnly(session, hasSession) ==
  IF ~hasSession
  THEN [status |-> 401, reason |-> "invalid"]
  ELSE [status |-> 200, reason |-> "valid"]

validateSession(session, hasSession) ==
  IF ~hasSession \/ session.user = NoUser
  THEN [status |-> 401, reason |-> "invalid"]
  ELSE [status |-> 200, reason |-> "valid"]

----------------------------------------------------------------------------
(* TenantController *)

\* verifyToken: verifyTenantToken, then the success page or 401
verifyTokenStatus(result) == IF result.success THEN 200 ELSE 401

\* verifyToken of tenant.controller.ts: the page that redirects to the tenant
\* root when result.success, else 401 'Authentication failed'
verifyToken(result) ==
  [status |-> verifyTokenStatus(result), toRoot |-> result.success]

\* !result in the other verifyToken: verifyTenantToken returns an object on
\* every path, and an object is never falsy
ResultIsFalsy(result) == FALSE

\* verifyToken of part_004: if (!result) 401, else res.redirect(301, '/')
verifyTokenPart004(result) ==
  IF ResultIsFalsy(result)
  THEN [status |-> 401, toRoot |-> FALSE]
  ELSE [status |-> 301, toRoot |-> TRUE]

----------------------------------------------------------------------------
(* bootstrap(): the middleware chain in front of the handlers *)

\* the dynamic session middleware: which hosts get a session middleware
RouterAttaches(hostname) == hostname = LoginHost \/ IsTenantHost(hostname)

\* the idle-timeout middleware, on a request that has a session object
IdleMiddlewareExpired(hostname, session, t) ==
  /\ IsTenantHost(hostname)
  /\ session.lastAccess # 0
  /\ t - session.lastAccess > MiddlewareIdleTimeout

IdleMiddlewareRefresh(hostname, session, t) ==
  IF IsTenantHost(hostname) THEN [session EXCEPT !.lastAccess = t] ELSE session

\* hostname.replace(/\./g, '_')
DotsToUnderscores(s) == [i \in 1..Len(s) |-> IF s[i] = "." THEN "_" ELSE s[i]]

DotSid == <<".", "s", "i", "d">>

\* one name and one Domain attribute for every session cookie
CookieScope_Shared(hostname) == [name |-> DotSid, domain |-> LvhMe]

\* the name and the Domain attribute of the session cookie of a served host:
\* loginSessionMiddleware, createTenantSessionMiddleware(hostname)
CookieScope(hostname) ==
  IF hostname = LoginHost
  THEN [name |-> <<"l", "o", "g", "i", "n">> \o DotSid, domain |-> LoginHost]
  ELSE [name |-> DotsToUnderscores(hostname) \o DotSid,
        domain |-> FirstLabel(hostname) \o DotLvhMe]

\* a browser sends a cookie to the host of its Domain attribute and to the
\* subdomains of that host
DomainMatches(hostname, domain) ==
  \/ hostname = domain
  \/ /\ Len(hostname) > Len(domain)
     /\ SubSeq(hostname, Len(hostname) - Len(domain), Len(hostname))
          = <<".">> \o domain

\* createTenantSessionMiddleware(hostname) is called for every request, and
\* every session() it returns has a MemoryStore of its own: a tenant host's
\* session store does not outlive the request
StoreOutlivesRequest(hostname) == ~IsTenantHost(hostname)

\* csurf: a POST request is answered 403 unless it carries a token that
\* matches the secret of its _csrf cookie
CsrfRejects(post, csrfOk) == post /\ ~csrfOk

\* The request as it reaches the guard and the handler.
\*   stage "next"     : the handler runs, with the session (object) given
\*   stage "answered" : a middleware has answered the request
\*   stage "hang"     : no middleware calls next() and none answers
\*   stored           : the session is in the store after the request
Enter(host, hasSess, http) ==
  IF ~http
  THEN [stage |-> "next", hasSession |-> hasSess,
        session |-> IF hasSess THEN AttachSession(sessions[host])
                    ELSE sessions[host],
        stored |-> TRUE, status |-> 0, reason |-> ""]
  ELSE IF ~RouterAttaches(host)
  THEN [stage |-> "hang", hasSession |-> FALSE, session |-> sessions[host],
        stored |-> TRUE, status |-> 0, reason |-> "no response"]
  ELSE LET session == IF StoreOutlivesRequest(host)
                      THEN AttachSession(sessions[host])
                      ELSE EmptySession
       IN  IF IdleMiddlewareExpired(host, session, now)
           THEN [stage |-> "answered", hasSession |-> FALSE,
                 session |-> DestroySession(session),
                 stored |-> StoreOutlivesRequest(host),
                 status |-> 401, reason |-> "Session expired"]
           ELSE [stage |-> "next", hasSession |-> TRUE,
                 session |-> IdleMiddlewareRefresh(host, session, now),
                 stored |-> StoreOutlivesRequest(host),
                 status |-> 0, reason |-> ""]

\* a POST request: Enter, then csurf
EnterPost(host, hasSess, csrfOk, http) ==
  LET c == Enter(host, hasSess, http)
  IN  IF http /\ c.stage = "next" /\ CsrfRejects(TRUE, csrfOk)
      THEN [c EXCEPT !.stage = "answered", !.status = 403,
                     !.reason = "invalid csrf token"]
      ELSE c

----------------------------------------------------------------------------
(* History *)

NoLog ==
  [id |-> "", tenantId |-> <<>>, expires |-> 0, ok |-> 0,
   expiredSeen |-> FALSE, mismatchSeen |-> FALSE, redeemedOn |-> <<>>]

IssuedLog(userId, tenantId, t) ==
  [id |-> userId, tenantId |-> tenantId, expires |-> t + TokenTtl, ok |-> 0,
   expiredSeen |-> FALSE, mismatchSeen |-> FALSE, redeemedOn |-> <<>>]

\* the store takes what the request leaves unless it answers with an error
StoreTakes(session) == ~storeFails

\* the session of the request's scope as the request leaves it; expired tells
\* that an idle timeout destroyed it
Respond(host, c, session, expired) ==
  /\ sessions' = IF c.stored /\ StoreTakes(session)
                 THEN [sessions EXCEPT ![host] = session]
                 ELSE sessions
  /\ idleExpired' = IF expired /\ sessions[host].user.tenant # <<>> THEN idleExpired \cup {host}
                    ELSE IF c.hasSession THEN idleExpired \ {host}
                    ELSE idleExpired

\* a request a middleware answered, or left unanswered, before the handler
Stopped(host, c) == Respond(host, c, c.session, c.reason = "Session expired")

\* the requests that can be in flight together
InFlightIds == 1..MaxInFlight

\* no request
NoRequest ==
  [stage |-> "none", host |-> <<>>, token |-> 0, hasSession |-> FALSE,
   session |-> NoSession, success |-> FALSE, message |-> ""]

----------------------------------------------------------------------------
(* The browser: useIdleTimeout *)

\* the default options of useIdleTimeout
DefaultPingInterval == 600000
DefaultActivityWindow == 30000

\* the options a component passes
IdleTimes == {DefaultActivityWindow, DefaultPingInterval}
PingIntervals == {DefaultActivityWindow, DefaultPingInterval}
ClientTenants == {<<>>, Acme}

\* how far the browser clock advances between two events
ClientSteps == {1, DefaultActivityWindow, DefaultPingInterval}

\* The hook before it is mounted.  clock is the browser's Date.now();
\* idleTimeoutRef and pingIntervalRef hold the time the pending timer is due
\* (0: none); seenActive is the isActive the registered listeners closed over.
\* History: lastEvent is the time of the last user-activity event (0: none),
\* effectAt the time the effect last ran, ping, pingCause and pingAt tell what
\* the last attemptSessionPing did, idleAt is the time onIdle last fired.
NoClient ==
  [clock |-> 1, steps |-> 0, mounted |-> FALSE,
   tenantId |-> <<>>, tenantRef |-> <<>>,
   idleTime |-> DefaultPingInterval, pingInterval |-> DefaultPingInterval,
   activityWindow |-> DefaultActivityWindow,
   lastActivityRef |-> 1, idleTimeoutRef |-> 0, pingIntervalRef |-> 0,
   isActive |-> TRUE, seenActive |-> TRUE,
   lastEvent |-> 0, effectAt |-> 0,
   ping |-> "none", pingCause |-> "none", pingAt |-> 0, idleAt |-> 0]

updateActivity(c) ==
  [c EXCEPT !.lastActivityRef = c.clock,
            !.isActive = IF ~c.seenActive THEN TRUE ELSE @]

resetIdleTimeout(c) ==
  IF c.tenantRef # c.tenantId
  THEN c
  ELSE [updateActivity(c) EXCEPT !.idleTimeoutRef = c.clock + c.idleTime]

\* a ping attempt that does not look at the last activity
attemptSessionPing_Always(c, cause) ==
  IF c.tenantId = <<>>
  THEN c
  ELSE [c EXCEPT !.ping = "sent", !.pingCause = cause, !.pingAt = c.clock]

attemptSessionPing(c, cause) ==
  IF c.tenantId = <<>>
  THEN c
  ELSE IF c.clock - c.lastActivityRef <= c.activityWindow
  THEN [c EXCEPT !.ping = "sent", !.pingCause = cause, !.pingAt = c.clock]
  ELSE [c EXCEPT !.ping = "skipped", !.pingCause = cause, !.pingAt = c.clock]

\* the cleanup of the effect: clearTimeout, clearInterval, removeEventListener
EffectCleanup(c) ==
  [c EXCEPT !.idleTimeoutRef = 0, !.pingIntervalRef = 0, !.mounted = FALSE]

\* the body of the effect, for the options of the render it belongs to
EffectBody(c, tenantId, idleTime, pingInterval) ==
  LET rendered == [c EXCEPT !.tenantId = tenantId, !.tenantRef = tenantId,
                            !.idleTime = idleTime,
                            !.pingInterval = pingInterval,
                            !.seenActive = c.isActive, !.mounted = TRUE,
                            !.effectAt = c.clock]
      reset == resetIdleTimeout(rendered)
  IN  IF tenantId # <<>>
      THEN attemptSessionPing(
             [reset EXCEPT !.pingIntervalRef = c.clock + pingInterval],
             "initial")
      ELSE reset

----------------------------------------------------------------------------
(* The state after construction *)

Init ==
  /\ now = 1
  /\ ticks = 0
  /\ tempAuthTokens = [k \in {} |-> NoToken]
  /\ issued = 0
  /\ sessions = [h \in Hosts |-> NoSession]
  /\ tokenLog = [k \in Tokens |-> NoLog]
  /\ idleExpired = {}
  /\ revokedTenants = {}
  /\ storeFails = FALSE
  /\ inFlight = [r \in InFlightIds |-> NoRequest]
  /\ client = NoClient

----------------------------------------------------------------------------
(* Steps *)

\* time passes
Tick(d) ==
  /\ ticks < MaxTicks
  /\ now' = now + d
  /\ ticks' = ticks + 1
  /\ UNCHANGED <<tempAuthTokens, issued, sessions, client, revokedTenants, storeFails, inFlight,
                 tokenLog, idleExpired>>

\* a timer callback that clears the store
Sweep_ClearsStore ==
  /\ tempAuthTokens' = [k \in {} |-> NoToken]
  /\ UNCHANGED <<client, revokedTenants, storeFails, inFlight, now, ticks, issued, sessions, tokenLog,
                 idleExpired>>

\* the setInterval callback of the AuthService constructor
Sweep ==
  /\ tempAuthTokens' = cleanExpiredTokens(tempAuthTokens, now)
  /\ UNCHANGED <<client, revokedTenants, storeFails, inFlight, now, ticks, issued, sessions, tokenLog,
                 idleExpired>>

\* the user store loses a tenant of the user (a change from outside the code)
Revoke(tenantId) ==
  /\ tenantId \in {Acme, Globex} \ revokedTenants
  /\ revokedTenants' = revokedTenants \cup {tenantId}
  /\ UNCHANGED <<client, inFlight, storeFails, now, ticks, tempAuthTokens, issued, sessions,
                 tokenLog, idleExpired>>

\* the session store starts, or stops, answering writes with an error
StoreFault(fails) ==
  /\ storeFails # fails
  /\ storeFails' = fails
  /\ UNCHANGED <<now, ticks, tempAuthTokens, issued, sessions, client, revokedTenants,
                 inFlight, tokenLog, idleExpired>>

\* POST /auth/login
Login(host, hasSess, email, password, csrfOk, http) ==
  LET c == EnterPost(host, hasSess, csrfOk, http)
  IN  /\ UNCHANGED <<client, revokedTenants, storeFails, inFlight, now, ticks, tempAuthTokens, issued, tokenLog>>
      /\ IF c.stage # "next"
         THEN Stopped(host, c)
         ELSE Respond(host, c,
                      login(c.session, c.hasSession, email, password, now).session,
                      FALSE)

\* POST /auth/logout
Logout(host, hasSess, csrfOk, http) ==
  LET c == EnterPost(host, hasSess, csrfOk, http)
  IN  /\ UNCHANGED <<client, revokedTenants, storeFails, inFlight, now, ticks, tempAuthTokens, issued, tokenLog>>
      /\ IF c.stage # "next"
         THEN Stopped(host, c)
         ELSE Respond(host, c, logout(c.session, c.hasSession).session, FALSE)

\* GET /auth/validate-session
ValidateSession(host, hasSess, http) ==
  LET c == Enter(host, hasSess, http)
  IN  /\ UNCHANGED <<client, revokedTenants, storeFails, inFlight, now, ticks, tempAuthTokens, issued, tokenLog>>
      /\ IF c.stage # "next"
         THEN Stopped(host, c)
         ELSE Respond(host, c, c.session, FALSE)

\* GET /auth/init-session/:tenantId  (LoginSessionGuard, then initSession)
InitSession(host, hasSess, tenantId, urlHasLogin, http) ==
  LET c == Enter(host, hasSess, http)
      g == LoginSessionGuard(c.session, c.hasSession, host, urlHasLogin, tenantId)
      r == initSession(g.session, tenantId, tempAuthTokens, issued + 1, now)
  IN  /\ UNCHANGED <<client, revokedTenants, storeFails, inFlight, now, ticks>>
      /\ IF c.stage # "next"
         THEN Stopped(host, c) /\ UNCHANGED <<tempAuthTokens, issued, tokenLog>>
         ELSE IF ~g.allow
         THEN /\ Respond(host, c, g.session, FALSE)
              /\ UNCHANGED <<tempAuthTokens, issued, tokenLog>>
         ELSE /\ r.token # 0 => issued < MaxTokens
              /\ Respond(host, c, g.session, FALSE)
              /\ tempAuthTokens' = r.tokens
              /\ issued' = IF r.token # 0 THEN issued + 1 ELSE issued
              /\ tokenLog' =
                   IF r.token # 0
                   THEN [tokenLog EXCEPT
                           ![r.token] = IssuedLog(g.session.user.id, tenantId, now)]
                   ELSE tokenLog

\* GET /tenant/verify-token/:token
VerifyToken(host, hasSess, token, http) ==
  LET c == Enter(host, hasSess, http)
      r == verifyTenantToken(tempAuthTokens, token, host, c.hasSession,
                             c.session, now)
  IN  /\ UNCHANGED <<client, revokedTenants, storeFails, inFlight, now, ticks, issued>>
      /\ IF c.stage # "next"
         THEN Stopped(host, c) /\ UNCHANGED <<tempAuthTokens, tokenLog>>
         ELSE /\ Respond(host, c, r.session, FALSE)
              /\ tempAuthTokens' = r.tokens
              /\ tokenLog' =
                   IF r.success
                   THEN [tokenLog EXCEPT
                           ![token].ok = IF @ < 2 THEN @ + 1 ELSE @,
                           ![token].redeemedOn = host]
                   ELSE IF r.message = MsgTokenExpired
                   THEN [tokenLog EXCEPT ![token].expiredSeen = TRUE]
                   ELSE IF r.message = MsgInvalidTenant
                   THEN [tokenLog EXCEPT ![token].mismatchSeen = TRUE]
                   ELSE tokenLog

\* GET /tenant/ping  (TenantSessionGuard, then ping)
Ping(host, hasSess, http) ==
  LET c == Enter(host, hasSess, http)
      g == TenantSessionGuard(c.session, c.hasSession, host, now)
  IN  /\ UNCHANGED <<client, revokedTenants, storeFails, inFlight, now, ticks, tempAuthTokens, issued, tokenLog>>
      /\ IF c.stage # "next"
         THEN Stopped(host, c)
         ELSE Respond(host, c, g.session, g.reason = MsgSessionExpired)

\* GET /tenant/verify-token/:token as the event loop runs it, in three turns.
\* First turn: the session middleware has loaded the session of the scope and
\* the request waits for the handler.
ArriveVerify(r, host, hasSess, token) ==
  LET c == Enter(host, hasSess, FALSE)
  IN  /\ inFlight[r].stage = "none"
      /\ inFlight' = [inFlight EXCEPT ![r] =
                        [stage |-> "attached", host |-> host, token |-> token,
                         hasSession |-> c.hasSession, session |-> c.session,
                         success |-> FALSE, message |-> ""]]
      /\ UNCHANGED <<now, ticks, tempAuthTokens, issued, sessions, client, revokedTenants, storeFails,
                     tokenLog, idleExpired>>

\* a verification whose turn ends after the session write, before the delete
RunVerify_YieldsBeforeDelete(r) ==
  LET q == inFlight[r]
      v == verifyTenantToken(tempAuthTokens, q.token, q.host, q.hasSession,
                             q.session, now)
  IN  /\ q.stage = "attached"
      /\ tempAuthTokens' = IF v.success THEN tempAuthTokens ELSE v.tokens
      /\ sessions' = IF v.success /\ StoreTakes(v.session)
                     THEN [sessions EXCEPT ![q.host] = v.session]
                     ELSE sessions
      /\ inFlight' = [inFlight EXCEPT ![r] =
                        [q EXCEPT !.stage = "verified", !.session = v.session,
                                  !.success = v.success, !.message = v.message]]
      /\ tokenLog' =
           IF v.success
           THEN [tokenLog EXCEPT
                   ![q.token].ok = IF @ < 2 THEN @ + 1 ELSE @,
                   ![q.token].redeemedOn = q.host]
           ELSE IF v.message = MsgTokenExpired
           THEN [tokenLog EXCEPT ![q.token].expiredSeen = TRUE]
           ELSE IF v.message = MsgInvalidTenant
           THEN [tokenLog EXCEPT ![q.token].mismatchSeen = TRUE]
           ELSE tokenLog
      /\ UNCHANGED <<now, ticks, issued, client, revokedTenants, storeFails, idleExpired>>

\* Second turn: verifyTenantToken runs from its first line to its return; it
\* has no await, and req.session.save() writes the store before it returns.
RunVerify(r) ==
  LET q == inFlight[r]
      v == verifyTenantToken(tempAuthTokens, q.token, q.host, q.hasSession,
                             q.session, now)
  IN  /\ q.stage = "attached"
      /\ tempAuthTokens' = v.tokens
      /\ sessions' = IF v.success /\ StoreTakes(v.session)
                     THEN [sessions EXCEPT ![q.host] = v.session]
                     ELSE sessions
      /\ inFlight' = [inFlight EXCEPT ![r] =
                        [q EXCEPT !.stage = "verified", !.session = v.session,
                                  !.success = v.success, !.message = v.message]]
      /\ tokenLog' =
           IF v.success
           THEN [tokenLog EXCEPT
                   ![q.token].ok = IF @ < 2 THEN @ + 1 ELSE @,
                   ![q.token].redeemedOn = q.host]
           ELSE IF v.message = MsgTokenExpired
           THEN [tokenLog EXCEPT ![q.token].expiredSeen = TRUE]
           ELSE IF v.message = MsgInvalidTenant
           THEN [tokenLog EXCEPT ![q.token].mismatchSeen = TRUE]
           ELSE tokenLog
      /\ UNCHANGED <<now, ticks, issued, client, revokedTenants, storeFails, idleExpired>>

\* Third turn: the response ends and express-session (resave: true) writes
\* req.session to the store.
RespondVerify(r) ==
  LET q == inFlight[r]
  IN  /\ q.stage = "verified"
      /\ sessions' = IF q.hasSession /\ StoreTakes(q.session)
                     THEN [sessions EXCEPT ![q.host] = q.session]
                     ELSE sessions
      /\ idleExpired' = IF q.hasSession THEN idleExpired \ {q.host}
                        ELSE idleExpired
      /\ inFlight' = [inFlight EXCEPT ![r] = NoRequest]
      /\ UNCHANGED <<now, ticks, tempAuthTokens, issued, client, revokedTenants, storeFails, tokenLog>>

\* GET /tenant/ping as the event loop runs it, in three turns.
\* First turn: the session middleware has loaded the session of the scope.
ArrivePing(r, host, hasSess) ==
  LET c == Enter(host, hasSess, FALSE)
  IN  /\ inFlight[r].stage = "none"
      /\ inFlight' = [inFlight EXCEPT ![r] =
                        [stage |-> "pingAttached", host |-> host, token |-> 0,
                         hasSession |-> c.hasSession, session |-> c.session,
                         success |-> FALSE, message |-> ""]]
      /\ UNCHANGED <<now, ticks, tempAuthTokens, issued, sessions, client, revokedTenants,
                     storeFails, tokenLog, idleExpired>>

\* Second turn: TenantSessionGuard.canActivate; its only await is the destroy
\* of an idle session, which the store has done when the guard goes on.
RunPing(r) ==
  LET q == inFlight[r]
      g == TenantSessionGuard(q.session, q.hasSession, q.host, now)
      expired == g.reason = MsgSessionExpired
  IN  /\ q.stage = "pingAttached"
      /\ sessions' = IF expired THEN [sessions EXCEPT ![q.host] = g.session]
                     ELSE sessions
      /\ idleExpired' = IF expired /\ sessions[q.host].user.tenant # <<>>
                        THEN idleExpired \cup {q.host}
                        ELSE idleExpired
      /\ inFlight' = [inFlight EXCEPT ![r] =
                        [q EXCEPT !.stage = "pingGuarded", !.session = g.session,
                                  !.success = g.allow, !.message = g.reason]]
      /\ UNCHANGED <<now, ticks, tempAuthTokens, issued, client, revokedTenants, storeFails,
                     tokenLog>>

\* Third turn: the response ends and express-session (resave: true) writes
\* req.session to the store, unless the guard has destroyed it.
RespondPing(r) ==
  LET q == inFlight[r]
      written == q.hasSession /\ q.session # NoSession /\ StoreTakes(q.session)
  IN  /\ q.stage = "pingGuarded"
      /\ sessions' = IF written THEN [sessions EXCEPT ![q.host] = q.session]
                     ELSE sessions
      /\ idleExpired' = IF written THEN idleExpired \ {q.host} ELSE idleExpired
      /\ inFlight' = [inFlight EXCEPT ![r] = NoRequest]
      /\ UNCHANGED <<now, ticks, tempAuthTokens, issued, client, revokedTenants, storeFails,
                     tokenLog>>

----------------------------------------------------------------------------
(* Specifications *)

\* req.session as the handlers may find it: under bootstrap() the session
\* middleware decides; without it a request has a session object or none
SessionObject(http) == IF http THEN {TRUE} ELSE BOOLEAN

\* the csrf token of a POST request matches or not; only csurf looks at it
CsrfTokens(http) == IF http THEN BOOLEAN ELSE {TRUE}

Requests(H, http) ==
  \/ \E h \in H, s \in SessionObject(http), e \in Emails, p \in Passwords,
        x \in CsrfTokens(http) :
       Login(h, s, e, p, x, http)
  \/ \E h \in H, s \in SessionObject(http), x \in CsrfTokens(http) :
       Logout(h, s, x, http)
  \/ \E h \in H, s \in SessionObject(http) : ValidateSession(h, s, http)
  \/ \E h \in H, s \in SessionObject(http), t \in TenantIds, u \in BOOLEAN :
       InitSession(h, s, t, u, http)
  \/ \E h \in H, s \in SessionObject(http), k \in Tokens :
       VerifyToken(h, s, k, http)
  \/ \E h \in H, s \in SessionObject(http) : Ping(h, s, http)

Next ==
  \/ \E d \in Steps : Tick(d)
  \/ Sweep
  \/ Requests(AppHosts, FALSE)

Spec == Init /\ [][Next]_vars

NextCorp ==
  \/ \E d \in Steps : Tick(d)
  \/ Sweep
  \/ Requests(CorpHosts, FALSE)

SpecCorp == Init /\ [][NextCorp]_vars

NextHttp ==
  \/ \E d \in Steps : Tick(d)
  \/ Sweep
  \/ Requests(HttpHosts, TRUE)

SpecHttp == Init /\ [][NextHttp]_vars

NextRevoke ==
  \/ \E d \in Steps : Tick(d)
  \/ Sweep
  \/ \E t \in {Acme} : Revoke(t)
  \/ Requests(AppHosts, FALSE)

SpecRevoke == Init /\ [][NextRevoke]_vars

\* the handlers with a session store whose writes can fail
NextStore ==
  \/ \E d \in Steps : Tick(d)
  \/ Sweep
  \/ \E b \in BOOLEAN : StoreFault(b)
  \/ Requests(AppHosts, FALSE)

SpecStore == Init /\ [][NextStore]_vars

\* verify-token requests in flight together, next to logins, handoffs, the
\* clock and the sweep
NextConcurrent ==
  \/ \E d \in {TokenTtl, IdleTimeout} : Tick(d)
  \/ Sweep
  \/ \E e \in Emails, p \in Passwords : Login(LoginHost, TRUE, e, p, TRUE, FALSE)
  \/ \E t \in TenantIds, u \in BOOLEAN : InitSession(LoginHost, TRUE, t, u, FALSE)
  \/ \E r \in InFlightIds, h \in AppHosts, k \in Tokens :
       ArriveVerify(r, h, TRUE, k)
  \/ \E r \in InFlightIds : RunVerify(r)
  \/ \E r \in InFlightIds : RespondVerify(r)

SpecConcurrent == Init /\ [][NextConcurrent]_vars

\* ping requests in flight together, next to logins, handoffs and the clock
NextPings ==
  \/ \E d \in {IdleTimeout, IdleTimeout + 1} : Tick(d)
  \/ \E e \in Emails, p \in Passwords : Login(LoginHost, TRUE, e, p, TRUE, FALSE)
  \/ \E u \in BOOLEAN : InitSession(LoginHost, TRUE, Acme, u, FALSE)
  \/ \E k \in Tokens : VerifyToken(AcmeHost, TRUE, k, FALSE)
  \/ \E r \in InFlightIds, s \in BOOLEAN : ArrivePing(r, AcmeHost, s)
  \/ \E r \in InFlightIds : RunPing(r)
  \/ \E r \in InFlightIds : RespondPing(r)

SpecPings == Init /\ [][NextPings]_vars

----------------------------------------------------------------------------
(* Steps of the browser *)

ServerUnchanged ==
  UNCHANGED <<now, ticks, tempAuthTokens, issued, sessions, revokedTenants,
              storeFails, inFlight, tokenLog, idleExpired>>

\* the browser clock advances
ClientTick(d) ==
  /\ client.steps < MaxClientSteps
  /\ client' = [client EXCEPT !.clock = @ + d, !.steps = @ + 1]
  /\ ServerUnchanged

\* the component is mounted, or rendered with another dependency of the
\* effect: the cleanup of the effect that ran before, then the effect
ClientRender(tenantId, idleTime, pingInterval) ==
  /\ \/ ~client.mounted
     \/ <<tenantId, idleTime, pingInterval>>
          # <<client.tenantId, client.idleTime, client.pingInterval>>
  /\ client' = EffectBody(IF client.mounted THEN EffectCleanup(client)
                          ELSE client,
                          tenantId, idleTime, pingInterval)
  /\ ServerUnchanged

\* the component is unmounted
ClientUnmount ==
  /\ client.mounted
  /\ client' = EffectCleanup(client)
  /\ ServerUnchanged

\* mousedown, mousemove, keypress, scroll, touchstart, click or keydown
ClientActivity ==
  /\ client.mounted
  /\ client' = [resetIdleTimeout(client) EXCEPT !.lastEvent = client.clock]
  /\ ServerUnchanged

\* the callback of setInterval(attemptSessionPing, pingInterval)
ClientPingTick ==
  /\ client.pingIntervalRef # 0
  /\ client.clock >= client.pingIntervalRef
  /\ client' = [attemptSessionPing(client, "tick") EXCEPT
                  !.pingIntervalRef = @ + client.pingInterval]
  /\ ServerUnchanged

\* the callback of setTimeout(..., idleTime) of resetIdleTimeout
ClientIdleFire ==
  /\ client.idleTimeoutRef # 0
  /\ client.clock >= client.idleTimeoutRef
  /\ client' = IF client.tenantRef = client.tenantId
               THEN [client EXCEPT !.idleTimeoutRef = 0, !.isActive = FALSE,
                                   !.idleAt = client.clock]
               ELSE [client EXCEPT !.idleTimeoutRef = 0]
  /\ ServerUnchanged

NextClient ==
  \/ \E d \in ClientSteps : ClientTick(d)
  \/ \E t \in ClientTenants, i \in IdleTimes, p \in PingIntervals :
       ClientRender(t, i, p)
  \/ ClientUnmount
  \/ ClientActivity
  \/ ClientPingTick
  \/ ClientIdleFire

SpecClient == Init /\ [][NextClient]_vars

----------------------------------------------------------------------------
(* Properties *)

WasIssued(k) == tokenLog[k].id # ""

\* the verification of token k by a request on host h, at the current state
Redeem(k, h, hasSess) ==
  LET c == Enter(h, hasSess, FALSE)
  IN  verifyTenantToken(tempAuthTokens, k, h, c.hasSession, c.session, now)

\* the tenant guard on a request on host h, at the current state
Guard(h, hasSess) ==
  LET c == Enter(h, hasSess, FALSE)
  IN  TenantSessionGuard(c.session, c.hasSession, h, now)

\* the host of a tenant: <tenantId>.lvh.me
IsHostOf(h, tenantId) == h = tenantId \o DotLvhMe

\* C1: a token issued for a user and one of the user's tenants is accepted by
\* its first redemption before expiry on the tenant's host (the request having
\* a session object); once redeemed, every further redemption fails with
\* 'Invalid or expired token'; no token is redeemed with success twice.
C1_RedeemedOnce ==
  \A k \in Tokens :
    /\ tokenLog[k].ok <= 1
    /\ WasIssued(k) /\ tokenLog[k].ok = 0 /\ now <= tokenLog[k].expires
         => \A h \in Hosts :
              IsHostOf(h, tokenLog[k].tenantId)
                => LET r == Redeem(k, h, TRUE)
                   IN  /\ r.success
                       /\ r.session.user.id = tokenLog[k].id
                       /\ r.session.user.tenant = tokenLog[k].tenantId
                       /\ k \notin DOMAIN r.tokens
    /\ tokenLog[k].ok >= 1
         => \A h \in Hosts, s \in BOOLEAN :
              /\ ~Redeem(k, h, s).success
              /\ Redeem(k, h, s).message = MsgInvalidToken

\* a token has been redeemed on its tenant's host before its expiry
C1_Witness ==
  \E k \in Tokens :
    /\ tokenLog[k].ok = 1
    /\ IsHostOf(tokenLog[k].redeemedOn, tokenLog[k].tenantId)
    /\ now <= tokenLog[k].expires
    /\ k \notin DOMAIN tempAuthTokens
    /\ sessions[tokenLog[k].redeemedOn].user.tenant = tokenLog[k].tenantId

\* C2 (as stated): every presentation of a token after its expiry, until one
\* has failed with 'Token expired', fails with 'Token expired'.
C2_ExpiredAlwaysReported ==
  \A k \in Tokens :
    WasIssued(k) /\ tokenLog[k].ok = 0 /\ ~tokenLog[k].expiredSeen
      /\ now > tokenLog[k].expires
      => \A h \in Hosts, s \in BOOLEAN : Redeem(k, h, s).message = MsgTokenExpired

\* C2 (amended): a token presented after its expiry while it is still in the
\* store fails with 'Token expired', leaves the request's session as it was and
\* is removed from the store, so that the next presentation fails with 'Invalid
\* or expired token'; an expired token that a sweep has removed fails with
\* 'Invalid or expired token' at once.
C2_ExpiredWhileStored ==
  \A k \in Tokens :
    /\ tokenLog[k].expiredSeen => k \notin DOMAIN tempAuthTokens
    /\ WasIssued(k) /\ now > tokenLog[k].expires
         => \A h \in Hosts, s \in BOOLEAN :
              LET c == Enter(h, s, FALSE)
                  r == Redeem(k, h, s)
              IN  /\ ~r.success
                  /\ r.session = c.session
                  /\ k \notin DOMAIN r.tokens
                  /\ r.message = IF k \in DOMAIN tempAuthTokens
                                 THEN MsgTokenExpired ELSE MsgInvalidToken
                  /\ \A h2 \in Hosts, s2 \in BOOLEAN :
                       verifyTenantToken(r.tokens, k, h2, s2, sessions[h2], now).message
                         = MsgInvalidToken

\* a presentation has found the token expired and removed it
C2_Witness ==
  \E k \in Tokens :
    /\ tokenLog[k].expiredSeen
    /\ tokenLog[k].ok = 0
    /\ k \notin DOMAIN tempAuthTokens

\* C3 (as stated): a token is redeemed with success only on the host of the
\* tenant it is bound to, and a tenant session exists only in the scope of its
\* tenant's host.
C3_MismatchRejected ==
  /\ \A k \in Tokens :
       tokenLog[k].ok >= 1 => IsHostOf(tokenLog[k].redeemedOn, tokenLog[k].tenantId)
  /\ \A h \in Hosts :
       sessions[h].user.tenant # <<>> => IsHostOf(h, sessions[h].user.tenant)

\* C4: a session bound to a user and a tenant exists only in a scope where a
\* token issued for that user and that tenant has been redeemed with success.
C4_TenantSessionFromToken ==
  \A h \in Hosts :
    sessions[h].user.tenant # <<>>
      => \E k \in Tokens :
           /\ tokenLog[k].ok >= 1
           /\ tokenLog[k].id = sessions[h].user.id
           /\ tokenLog[k].tenantId = sessions[h].user.tenant
           /\ tokenLog[k].redeemedOn = h

\* a tenant session exists, and its scope has been through the guard since
C4_Witness ==
  \E h \in Hosts :
    /\ sessions[h].user.tenant = Acme
    /\ sessions[h].user.id = "1"
    /\ sessions[LoginHost].user.tenants # {}

\* a tenant session idle for more than the idle timeout
IdleTenantSession(h) ==
  /\ sessions[h].user.tenant # <<>>
  /\ sessions[h].lastAccess # 0
  /\ now - sessions[h].lastAccess > IdleTimeout

\* the guard on an idle tenant session: the idle branch, the session destroyed
IdleRejected ==
  \A h \in Hosts :
    IdleTenantSession(h)
      => /\ ~Guard(h, TRUE).allow
         /\ Guard(h, TRUE).reason = MsgSessionExpired
         /\ Guard(h, TRUE).session = NoSession

\* C5 (as stated): an idle tenant session is rejected as expired and destroyed,
\* and the following request of the scope is rejected with 'No session found'.
C5_FollowingRequestNoSession ==
  /\ IdleRejected
  /\ \A h \in idleExpired, s \in BOOLEAN : Guard(h, s).reason = MsgNoSession

\* C5 (amended): the guard rejects a request on a tenant session idle for more
\* than 1,200,000 ms in its idle branch and destroys the session; the following
\* request of the scope is rejected with 'User not authenticated' when it has a
\* session object, as every request behind the session middleware has, and
\* with 'No session found' only when it has none; each of these rejections
\* reaches the client as 'Unauthorized'.
C5_IdleSessionDestroyed ==
  /\ []IdleRejected
  /\ [][\A h \in Hosts :
          IdleTenantSession(h) /\ Ping(h, TRUE, FALSE)
            => sessions'[h] = NoSession /\ h \in idleExpired']_vars
  /\ [](\A h \in idleExpired :
          /\ sessions[h] = NoSession
          /\ Guard(h, TRUE).reason = MsgNotAuthenticated
          /\ Guard(h, FALSE).reason = MsgNoSession
          /\ \A s \in BOOLEAN :
               ~Guard(h, s).allow /\ Guard(h, s).message = "Unauthorized")

\* the guard has destroyed an idle tenant session
C5_Witness ==
  \E h \in idleExpired :
    /\ sessions[h] = NoSession
    /\ \E k \in Tokens : tokenLog[k].ok = 1 /\ tokenLog[k].redeemedOn = h

\* the guard and the handler of GET /auth/init-session/:tenantId on a request
\* on host h, at the current state
Handoff(h, hasSess, tenantId, urlHasLogin) ==
  LET c == Enter(h, hasSess, FALSE)
      g == LoginSessionGuard(c.session, c.hasSession, h, urlHasLogin, tenantId)
  IN  [principal |-> c.hasSession /\ c.session.user # NoUser,
       guard |-> g,
       result |-> initSession(g.session, tenantId, tempAuthTokens, issued + 1, now)]

\* every token was issued to a user for one of the user's tenants
IssuedForGrantedTenant ==
  \A k \in Tokens :
    WasIssued(k) => findById(tokenLog[k].id, tokenLog[k].tenantId) # NoRecord

IssuedToUser ==
  \A k \in Tokens : WasIssued(k) => \E user \in users : user.id = tokenLog[k].id

\* C7 (as stated): init-session on a request without a session object, or
\* with a session without user, is rejected as Unauthorized (401), and no token
\* is ever issued without a user.
C7_NoPrincipalUnauthorized ==
  /\ IssuedToUser
  /\ \A h \in Hosts, s \in BOOLEAN, t \in TenantIds, u \in BOOLEAN :
       LET x == Handoff(h, s, t, u)
       IN  ~x.principal => ~x.guard.allow /\ x.guard.status = 401

\* C7 (amended): init-session on a request without a session object, or with
\* a session without user, never reaches the handler: the guard rejects it as
\* Unauthorized (401), or, when the request URL contains '/login/', redirects
\* it to the login page; no token is ever issued without a user.
C7_NoPrincipalNoToken ==
  /\ IssuedToUser
  /\ \A h \in Hosts, s \in BOOLEAN, t \in TenantIds, u \in BOOLEAN :
       LET x == Handoff(h, s, t, u)
       IN  ~x.principal
             => /\ ~x.guard.allow
                /\ x.guard.status = IF u THEN 302 ELSE 401
                /\ x.guard.session = Enter(h, s, FALSE).session

\* the login scope has lost its user while a token is in the store
C7_Witness ==
  /\ sessions[LoginHost].user = NoUser
  /\ DOMAIN tempAuthTokens # {}
  /\ ~Handoff(LoginHost, TRUE, Acme, FALSE).guard.allow

\* validate-session on the next request of the login scope
ValidAfter == validateSession(AttachSession(sessions'[LoginHost]), TRUE).status

\* C8: a login with valid credentials in the login scope makes the next
\* validate-session of the scope answer valid; a logout in the scope makes it
\* answer invalid.
C8_LoginThenValidate ==
  [][/\ (\E e \in Emails, p \in Passwords :
           /\ validateUserForLogin(e, p) # NoRecord
           /\ Login(LoginHost, TRUE, e, p, TRUE, FALSE))
        => ValidAfter = 200
     /\ Logout(LoginHost, TRUE, TRUE, FALSE) => ValidAfter = 401]_vars

\* the login scope holds the session of a login
C8_Witness ==
  /\ sessions[LoginHost].user.email = "john@example.com"
  /\ sessions[LoginHost].user.tenant = <<>>
  /\ validateSession(AttachSession(sessions[LoginHost]), TRUE).status = 200

\* C9 (as stated): while a token for a tenant is in the store, a request on
\* the tenant's host is given a session and reaches its handler.
C9_TenantHostServed ==
  \A k \in DOMAIN tempAuthTokens, h \in HttpHosts :
    IsHostOf(h, tempAuthTokens[k].tenantId) => Enter(h, TRUE, TRUE).stage = "next"

\* two tokens in the store for the same user and tenant, neither expired
Twins(k1, k2) ==
  /\ k1 # k2
  /\ k1 \in DOMAIN tempAuthTokens /\ k2 \in DOMAIN tempAuthTokens
  /\ tempAuthTokens[k1].id = tempAuthTokens[k2].id
  /\ tempAuthTokens[k1].tenantId = tempAuthTokens[k2].tenantId
  /\ ~IsExpired(tempAuthTokens[k1], now) /\ ~IsExpired(tempAuthTokens[k2], now)

\* C10: issuing a token leaves every unexpired token in the store; of two
\* tokens in the store for the same user and tenant each is redeemable, and
\* redeeming one leaves the other in the store, unchanged and redeemable;
\* no token is redeemed twice.
C10_IndependentTokens ==
  /\ [][issued' = issued + 1
          => /\ issued + 1 \in DOMAIN tempAuthTokens'
             /\ \A k \in DOMAIN tempAuthTokens :
                  ~IsExpired(tempAuthTokens[k], now)
                    => /\ k \in DOMAIN tempAuthTokens'
                       /\ tempAuthTokens'[k] = tempAuthTokens[k]]_vars
  /\ [][\A k \in Tokens :
          tokenLog'[k].ok = tokenLog[k].ok + 1
            => \A k2 \in DOMAIN tempAuthTokens \ {k} :
                 /\ k2 \in DOMAIN tempAuthTokens'
                 /\ tempAuthTokens'[k2] = tempAuthTokens[k2]]_vars
  /\ [](\A k1 \in Tokens, k2 \in Tokens, h \in Hosts :
          Twins(k1, k2) /\ IsHostOf(h, tempAuthTokens[k1].tenantId)
            => LET r == Redeem(k1, h, TRUE)
               IN  /\ r.success
                   /\ k1 \notin DOMAIN r.tokens
                   /\ k2 \in DOMAIN r.tokens
                   /\ r.tokens[k2] = tempAuthTokens[k2]
                   /\ verifyTenantToken(r.tokens, k2, h, TRUE, r.session, now).success)
  /\ [](\A k \in Tokens : tokenLog[k].ok <= 1)

\* the second of two tokens has been redeemed and the first is still in the
\* store, for the same user and tenant
C10_Witness ==
  /\ tokenLog[2].ok = 1
  /\ 1 \in DOMAIN tempAuthTokens
  /\ tempAuthTokens[1].id = tokenLog[2].id
  /\ tempAuthTokens[1].tenantId = tokenLog[2].tenantId
  /\ ~IsExpired(tempAuthTokens[1], now)

\* C11 (as stated): when the tenant guard allows a request on a host other
\* than login.lvh.me, the session's tenant is non-empty and is the subdomain
\* label of the host, and req.user carries the session's user id and tenant;
\* a session bound to one tenant is rejected on the host of another tenant.
C11_GuardBindsTenantToHost ==
  \A h \in Hosts \ {LoginHost} :
    LET c == Enter(h, TRUE, FALSE)
        g == Guard(h, TRUE)
    IN  /\ g.allow
          => /\ c.session.user.tenant # <<>>
             /\ FirstLabel(h) = c.session.user.tenant
             /\ g.user = [id |-> c.session.user.id,
                          tenantId |-> c.session.user.tenant]
        /\ c.session.user.tenant # <<>> /\ ~IdleExpired(c.session.lastAccess, now)
             /\ FirstLabel(h) # c.session.user.tenant
          => ~g.allow /\ g.reason = MsgTenantMismatch

\* the hosts whose cookie scopes are compared
ScopeHosts == {LoginHost, Tenant1Host, Tenant12Host, AcmeHost, AcmeCorpHost}

\* the session cookie set on host h1 is sent to host h2 and read there
CookieSent(h1, h2) ==
  /\ RouterAttaches(h1) /\ RouterAttaches(h2)
  /\ CookieScope(h1).name = CookieScope(h2).name
  /\ DomainMatches(h2, CookieScope(h1).domain)

\* C12: two different hosts that are given a session middleware have session
\* cookies of different names and different domains, the cookie of one is never
\* sent to and read on the other, and a request on one never has the user of
\* the session established on the other attached.
C12_DistinctCookieScopes ==
  /\ \A h1 \in ScopeHosts, h2 \in ScopeHosts :
       RouterAttaches(h1) /\ RouterAttaches(h2) /\ h1 # h2
         => /\ CookieScope(h1).name # CookieScope(h2).name
            /\ CookieScope(h1).domain # CookieScope(h2).domain
            /\ ~CookieSent(h1, h2)
  /\ \A h \in ScopeHosts : RouterAttaches(h) => CookieSent(h, h)
  /\ \A h1 \in HttpHosts, h2 \in HttpHosts :
       RouterAttaches(h1) /\ RouterAttaches(h2) /\ h1 # h2
         /\ sessions[h1].user # NoUser
         => Enter(h2, TRUE, TRUE).session.user = NoUser

\* a login session exists while a tenant host is served
C12_Witness ==
  /\ sessions[LoginHost].user.id = "1"
  /\ Enter(Tenant1Host, TRUE, TRUE).stage = "next"
  /\ CookieScope(Tenant1Host).domain = Tenant1Host
  /\ Cardinality({h \in ScopeHosts : RouterAttaches(h)}) = 3

\* C13 (as stated): a token is redeemed with success only when, at the
\* redemption, findById finds the token's user with the token's tenant.
C13_RevalidatedAtRedemption ==
  [][\A k \in Tokens :
       tokenLog'[k].ok = tokenLog[k].ok + 1
         => findById(tokenLog[k].id, tokenLog[k].tenantId) # NoRecord]_vars

\* C14 (as stated): both versions of GET /tenant/verify-token/:token send
\* the client to the tenant root exactly when the redemption succeeded, and
\* answer a failed redemption with 401.
C14_RedirectOnlyOnSuccess ==
  \A k \in Tokens, h \in Hosts, s \in BOOLEAN :
    LET r == Redeem(k, h, s)
    IN  /\ verifyToken(r).toRoot = r.success
        /\ ~r.success => verifyToken(r).status = 401
        /\ verifyTokenPart004(r).toRoot = r.success
        /\ ~r.success => verifyTokenPart004(r).status = 401

\* the passwords the user service holds
Secrets == {user.password : user \in users}

\* C15: validateUserForLogin returns no password; in every state no session
\* user has a password among its id, email and name (its tenants and tenant
\* are tenant identifiers); no login response has one among the id, email
\* and name of its user.
C15_SecretStaysInside ==
  /\ \A e \in Emails, p \in Passwords :
       validateUserForLogin(e, p).password \notin Secrets
  /\ \A h \in Hosts :
       /\ sessions[h].user.id \notin Secrets
       /\ sessions[h].user.email \notin Secrets
       /\ sessions[h].user.name \notin Secrets
       /\ sessions[h].user.tenants \subseteq {Acme, Globex}
       /\ sessions[h].user.tenant \in {<<>>, Acme, Globex}
  /\ \A h \in Hosts, s \in BOOLEAN, e \in Emails, p \in Passwords :
       LET c == Enter(h, s, FALSE)
           r == login(c.session, c.hasSession, e, p, now)
       IN  /\ DOMAIN r.body = {"id", "email", "name", "tenants"}
           /\ r.body.id \notin Secrets
           /\ r.body.email \notin Secrets
           /\ r.body.name \notin Secrets
           /\ r.body.tenants \subseteq {Acme, Globex}

\* a login session and a tenant session of the user exist
C15_Witness ==
  /\ sessions[LoginHost].user.email = "john@example.com"
  /\ sessions[AcmeHost].user.tenant = Acme
  /\ login(sessions[LoginHost], TRUE, "john@example.com", "password123", now).status
       = 200

\* C16: on every host, for a request with a session object (bound to a
\* principal or not) and for a request without one, logout answers 200 and
\* leaves no principal-bound session in the scope.
C16_LogoutAlwaysSucceeds ==
  \A h \in Hosts, s \in BOOLEAN :
    LET c == Enter(h, s, FALSE)
        r == logout(c.session, c.hasSession)
    IN  /\ r.status = 200
        /\ r.session.user = NoUser

\* token k is not in the store: never issued, redeemed, or removed as expired
NotStored(k) == k \notin DOMAIN tempAuthTokens

\* token k was issued and removed by the sweep without a verification seeing it
WasSwept(k) ==
  /\ WasIssued(k)
  /\ NotStored(k)
  /\ tokenLog[k].ok = 0
  /\ ~tokenLog[k].expiredSeen

\* C17: the verification of a token that is not in the store fails with
\* 'Invalid or expired token' and returns the token store and the request's
\* session as they were; a verify-token request with such a token leaves the
\* token store, and the user and lastAccess of the session of every host,
\* unchanged.
C17_UnknownTokenNoEffect ==
  /\ [](\A k \in Tokens, h \in Hosts, s \in BOOLEAN :
          NotStored(k) =>
            LET c == Enter(h, s, FALSE)
                r == Redeem(k, h, s)
            IN  /\ ~r.success
                /\ r.message = MsgInvalidToken
                /\ r.tokens = tempAuthTokens
                /\ r.session = c.session)
  /\ [][\A k \in Tokens, h \in Hosts, s \in BOOLEAN :
          NotStored(k) /\ VerifyToken(h, s, k, FALSE) =>
            /\ tempAuthTokens' = tempAuthTokens
            /\ \A h2 \in Hosts :
                 /\ sessions'[h2].user = sessions[h2].user
                 /\ sessions'[h2].lastAccess = sessions[h2].lastAccess
                 /\ h2 # h => sessions'[h2] = sessions[h2]]_vars

\* one token was redeemed, the other was swept, neither is in the store, and
\* a tenant session and a login session exist
C17_Witness ==
  /\ \E k1, k2 \in Tokens :
       /\ tokenLog[k1].ok = 1 /\ NotStored(k1)
       /\ WasSwept(k2)
       /\ Redeem(k1, AcmeHost, TRUE).message = MsgInvalidToken
       /\ Redeem(k2, AcmeHost, TRUE).message = MsgInvalidToken
  /\ sessions[AcmeHost].user.tenant = Acme
  /\ sessions[LoginHost].user # NoUser

\* the credentials are those of no user: unknown email or wrong password
BadCredentials(e, p) ==
  \/ findByEmail(e) = NoRecord
  \/ findByEmail(e).password # p

\* C18: a login with an unknown email or a wrong password is answered 401
\* 'Invalid credentials' and returns the request's session as it was; a login
\* request with such credentials leaves the user and lastAccess of the session
\* of every host unchanged: a session without user stays without user and a
\* session with a user keeps it.
C18_FailedLoginBindsNothing ==
  /\ [](\A h \in Hosts, s \in BOOLEAN, e \in Emails, p \in Passwords :
          BadCredentials(e, p) =>
            LET c == Enter(h, s, FALSE)
                r == login(c.session, c.hasSession, e, p, now)
            IN  /\ r.status = 401
                /\ r.reason = "Invalid credentials"
                /\ r.session = c.session
                /\ r.body.id = "")
  /\ [][\A h \in Hosts, s \in BOOLEAN, e \in Emails, p \in Passwords :
          BadCredentials(e, p) /\ Login(h, s, e, p, TRUE, FALSE) =>
            \A h2 \in Hosts :
              /\ sessions'[h2].user = sessions[h2].user
              /\ sessions'[h2].lastAccess = sessions[h2].lastAccess
              /\ h2 # h => sessions'[h2] = sessions[h2]]_vars

\* a login session of a user exists, a scope without user exists, and both an
\* unknown email and a wrong password of a known email can be tried
C18_Witness ==
  /\ sessions[LoginHost].user.id = "1"
  /\ sessions[AcmeHost].user = NoUser
  /\ \E e \in Emails, p \in Passwords : findByEmail(e) = NoRecord
  /\ \E e \in Emails, p \in Passwords :
       /\ findByEmail(e) # NoRecord
       /\ findByEmail(e).password # p
       /\ login(sessions[LoginHost], TRUE, e, p, now).status = 401

\* the session records with a tenant user, in the store and in flight
TenantSessionRecords ==
  {sessions[h] : h \in {x \in Hosts : sessions[x].user.tenant # <<>>}}
    \cup {inFlight[r].session :
            r \in {x \in InFlightIds : inFlight[x].session.user.tenant # <<>>}}

\* the requests in flight for token k whose verification has succeeded
Succeeded(k) ==
  {r \in InFlightIds : inFlight[r].token = k /\ inFlight[r].success}

\* C19: with verify-token requests in flight together, in any order of their
\* turns, at most one verification of a token succeeds; a verification succeeds
\* only for a token that is in the store and unexpired as it runs, and the
\* token is out of the store when it returns; the session records with a
\* tenant user, in the store and in the requests in flight, are never more
\* than the tokens redeemed.
C19_OneConcurrentRedemption ==
  /\ [](\A k \in Tokens :
          /\ tokenLog[k].ok <= 1
          /\ Cardinality(Succeeded(k)) <= 1)
  /\ [](Cardinality(TenantSessionRecords)
          <= Cardinality({k \in Tokens : tokenLog[k].ok = 1}))
  /\ [][\A r \in InFlightIds :
          RunVerify(r) /\ inFlight'[r].success =>
            /\ inFlight[r].token \in DOMAIN tempAuthTokens
            /\ ~IsExpired(tempAuthTokens[inFlight[r].token], now)
            /\ inFlight[r].token \notin DOMAIN tempAuthTokens'
            /\ tokenLog[inFlight[r].token].ok = 0]_vars

\* two requests for the same token on the same host were in flight together:
\* one has succeeded, the other was answered 'Invalid or expired token'
C19_Witness ==
  /\ inFlight[1].stage = "verified"
  /\ inFlight[2].stage = "verified"
  /\ inFlight[1].token = inFlight[2].token
  /\ inFlight[1].host = AcmeHost
  /\ inFlight[2].host = AcmeHost
  /\ inFlight[1].success
  /\ ~inFlight[2].success
  /\ inFlight[2].message = MsgInvalidToken
  /\ inFlight[2].hasSession

\* C20: a verification that fails with 'Invalid tenant' returns the token
\* store as it was; after a verify-token request that fails so the token is
\* in the store with the record it had, and a request with a session object
\* on the host of the token's tenant redeems it, unless it has expired.
C20_MismatchKeepsToken ==
  /\ [](\A k \in Tokens, h \in Hosts, s \in BOOLEAN :
          Redeem(k, h, s).message = MsgInvalidTenant =>
            /\ k \in DOMAIN tempAuthTokens
            /\ Redeem(k, h, s).tokens = tempAuthTokens)
  /\ [][\A k \in Tokens, h \in Hosts, s \in BOOLEAN :
          /\ Redeem(k, h, s).message = MsgInvalidTenant
          /\ VerifyToken(h, s, k, FALSE)
          => /\ tempAuthTokens' = tempAuthTokens
             /\ \A h2 \in Hosts :
                  IsHostOf(h2, tempAuthTokens[k].tenantId)
                    /\ ~IsExpired(tempAuthTokens[k], now')
                  => verifyTenantToken(tempAuthTokens', k, h2, TRUE,
                                       AttachSession(sessions'[h2]), now').success]_vars
  /\ [](\A k \in Tokens :
          tokenLog[k].mismatchSeen /\ tokenLog[k].ok = 0
            /\ ~tokenLog[k].expiredSeen /\ tokenLog[k].expires >= now
          => \A h2 \in Hosts :
               IsHostOf(h2, tokenLog[k].tenantId) => Redeem(k, h2, TRUE).success)

\* a token was refused with 'Invalid tenant' on the login host and afterwards
\* redeemed on the host of its tenant
C20_Witness ==
  \E k \in Tokens :
    /\ tokenLog[k].mismatchSeen
    /\ tokenLog[k].ok = 1
    /\ tokenLog[k].redeemedOn = AcmeHost
    /\ sessions[AcmeHost].user.tenant = Acme

\* C21: a verify-token request is answered with success only if the store
\* holds the tenant session of the token after it; while the store answers
\* writes with an error no verification succeeds.
C21_RedeemPersistsFirst ==
  /\ [][\A k \in Tokens, h \in AppHosts, s \in BOOLEAN :
          Redeem(k, h, s).success /\ VerifyToken(h, s, k, FALSE) =>
            /\ sessions'[h].user.id = tokenLog[k].id
            /\ sessions'[h].user.tenant = tokenLog[k].tenantId]_vars
  /\ [](SessionSaveFails =>
          \A k \in Tokens, h \in Hosts, s \in BOOLEAN : ~Redeem(k, h, s).success)

\* C22: a login is answered 200 only if the store holds the login session of
\* the user after it; while the store answers writes with an error a login
\* with valid credentials on a request with a session object is answered 500
\* 'Error saving session', and no login is answered 200.
C22_LoginPersistsFirst ==
  /\ [][\A h \in AppHosts, s \in BOOLEAN, e \in Emails, p \in Passwords :
          /\ login(Enter(h, s, FALSE).session, s, e, p, now).status = 200
          /\ Login(h, s, e, p, TRUE, FALSE)
          => /\ sessions'[h].user.id = findByEmail(e).id
             /\ sessions'[h].user.email = e
             /\ sessions'[h].user.tenant = <<>>]_vars
  /\ [](SessionSaveFails =>
          \A h \in Hosts, s \in BOOLEAN, e \in Emails, p \in Passwords :
            LET r == login(Enter(h, s, FALSE).session, s, e, p, now)
            IN  /\ r.status # 200
                /\ r.body.id = ""
                /\ ~BadCredentials(e, p) /\ s
                     => r.status = 500 /\ r.reason = MsgErrorSavingSession)

\* the store answers writes with an error, a login with valid credentials is
\* answered 500, and the scope still has no login session although a login
\* was tried
C22_Witness ==
  /\ storeFails
  /\ login(Enter(LoginHost, TRUE, FALSE).session, TRUE, "john@example.com",
           "password123", now).status = 500
  /\ sessions[AcmeHost].user.tenant = Acme
  /\ sessions[LoginHost].user = NoUser
  /\ sessions[LoginHost].exists

\* the session of a request on host h has a user and has been idle for more
\* than the guard's timeout
IdleSession(h) ==
  /\ sessions[h].user # NoUser
  /\ IdleExpired(sessions[h].lastAccess, now)

\* C23: the tenant guard never allows a request on a session idle for more
\* than 1,200,000 ms; it rejects it as expired exactly when the store has
\* acknowledged the destroy, with the session destroyed; after a ping rejected
\* as expired the store holds no session of the scope and the next request of
\* the scope is not allowed either.
C23_DestroyedBeforeRejected ==
  /\ [](\A h \in Hosts :
          IdleSession(h) =>
            LET g == Guard(h, TRUE)
            IN  /\ ~g.allow
                /\ g.status = 401
                /\ g.reason = MsgSessionExpired <=> ~SessionDestroyFails
                /\ g.reason = MsgSessionExpired => g.session = NoSession)
  /\ [](\A h \in Hosts, s \in BOOLEAN :
          Guard(h, s).reason = MsgSessionExpired => s /\ IdleSession(h))
  /\ [][\A h \in AppHosts :
          Guard(h, TRUE).reason = MsgSessionExpired /\ Ping(h, TRUE, FALSE)
            => /\ sessions'[h] = NoSession
               /\ \A s \in BOOLEAN :
                    ~TenantSessionGuard(IF s THEN AttachSession(sessions'[h])
                                        ELSE sessions'[h], s, h, now').allow]_vars

\* an idle tenant session was destroyed on a ping, and in another scope an
\* idle session is met by a store that does not acknowledge the destroy
C23_Witness ==
  /\ AcmeHost \in idleExpired
  /\ sessions[AcmeHost] = NoSession
  /\ IdleSession(LoginHost)
  /\ SessionDestroyFails
  /\ Guard(LoginHost, TRUE).reason = MsgDestroyError

\* how long the session of a request on host h has been idle: now minus its
\* lastAccess, and 0 when it has none
IdleDuration(h) ==
  IF sessions[h].lastAccess # 0 THEN now - sessions[h].lastAccess ELSE 0

Unexpired == {k \in DOMAIN tempAuthTokens : tempAuthTokens[k].expires >= now}

\* C25: the sweep keeps exactly the records with expires >= now, each as it
\* was, on the timer and at the end of every issue; after an issue the store
\* holds the new token with expires = now + 30,000 and no record with
\* expires < now, and every record that was unexpired before is still there
\* as it was.
C25_SweepExact ==
  /\ [](LET swept == cleanExpiredTokens(tempAuthTokens, now)
        IN  /\ DOMAIN swept = Unexpired
            /\ \A k \in Unexpired : swept[k] = tempAuthTokens[k])
  /\ [][Sweep =>
          /\ DOMAIN tempAuthTokens' = Unexpired
          /\ \A k \in Unexpired : tempAuthTokens'[k] = tempAuthTokens[k]]_vars
  /\ [][issued' = issued + 1 =>
          /\ DOMAIN tempAuthTokens' = Unexpired \cup {issued'}
          /\ tempAuthTokens'[issued'].expires = now + 30000
          /\ \A k \in Unexpired : tempAuthTokens'[k] = tempAuthTokens[k]
          /\ \A k \in DOMAIN tempAuthTokens' : tempAuthTokens'[k].expires >= now']_vars

\* the first token was swept while expired and unredeemed, and the second
\* token, issued after that expiry, is in the store with its full lifetime
C25_Witness ==
  /\ WasSwept(1)
  /\ tokenLog[1].expires < now
  /\ 2 \in DOMAIN tempAuthTokens
  /\ tempAuthTokens[2].expires = now + TokenTtl
  /\ DOMAIN cleanExpiredTokens(tempAuthTokens, now) = {2}

\* C26: with verify-token requests in flight and issues in between, a timer
\* sweep removes no record with expires >= now and changes none; a token that
\* was issued, is not redeemed and is not past its expiry is in the store and
\* is redeemed by a request with a session object on the host of its tenant,
\* whatever sweeps came before; a sweep turns no failing verification into a
\* succeeding one.
C26_SweepInterleavesSafely ==
  /\ [][Sweep =>
          /\ \A k \in DOMAIN tempAuthTokens :
               tempAuthTokens[k].expires >= now
                 => /\ k \in DOMAIN tempAuthTokens'
                    /\ tempAuthTokens'[k] = tempAuthTokens[k]
          /\ \A k \in Tokens, h \in AppHosts, s \in BOOLEAN :
               ~Redeem(k, h, s).success
                 => ~verifyTenantToken(tempAuthTokens', k, h, s,
                                       Enter(h, s, FALSE).session, now').success]_vars
  /\ [](\A k \in Tokens :
          WasIssued(k) /\ tokenLog[k].ok = 0 /\ tokenLog[k].expires >= now
            => /\ k \in DOMAIN tempAuthTokens
               /\ \A h \in Hosts :
                    IsHostOf(h, tokenLog[k].tenantId) => Redeem(k, h, TRUE).success)
  /\ [](\A k \in Tokens :
          tokenLog[k].ok = 1 \/ tokenLog[k].expires < now
            => \A h \in Hosts, s \in BOOLEAN : ~Redeem(k, h, s).success)

\* the timer has swept the first token while the request that has redeemed
\* the second was still in flight
C26_Witness ==
  /\ WasSwept(1)
  /\ tokenLog[2].ok = 1
  /\ \E r \in InFlightIds :
       /\ inFlight[r].stage = "verified"
       /\ inFlight[r].token = 2
       /\ inFlight[r].success

\* the session a guard leaves is the session it found, but for lastAccess, or
\* the session is destroyed and was idle
GuardKeepsBinding(found, left) ==
  \/ /\ left = NoSession
     /\ found.user # NoUser
     /\ IdleExpired(found.lastAccess, now)
  \/ /\ left.user.id = found.user.id
     /\ left.user.tenant = found.user.tenant
     /\ [left EXCEPT !.lastAccess = found.lastAccess] = found

\* C27: on every host, with and without session object, on every route, the
\* session the login guard leaves and the session the tenant guard leaves is
\* the session of the request with the same user id and the same tenant and
\* at most lastAccess changed, or it is destroyed for idleness; a request
\* without a user in its session leaves the guards without one.
C27_GuardsKeepBinding ==
  \A h \in Hosts, s \in BOOLEAN, t \in TenantIds \cup {<<>>}, u \in BOOLEAN :
    LET c == Enter(h, s, FALSE)
        gl == LoginSessionGuard(c.session, c.hasSession, h, u, t)
        gt == TenantSessionGuard(c.session, c.hasSession, h, now)
    IN  /\ GuardKeepsBinding(c.session, gl.session)
        /\ GuardKeepsBinding(c.session, gt.session)
        /\ c.session.user = NoUser
             => gl.session.user = NoUser /\ gt.session.user = NoUser

\* the tenant parameter of a route: a tenant id, or none
TenantParams == TenantIds \cup {<<>>}

\* C28: on a request without session object or with a session without user the
\* login guard never allows; it redirects to the login page, with the tenant
\* of the route as hint, exactly when the URL contains '/login/' and the route
\* has a tenant parameter, and rejects with 401 otherwise; it leaves the
\* session as it found it, and an init-session request so answered leaves the
\* token store as it was.
C28_RedirectOrReject ==
  /\ [](\A h \in Hosts, s \in BOOLEAN, t \in TenantParams, u \in BOOLEAN :
          LET c == Enter(h, s, FALSE)
              g == LoginSessionGuard(c.session, c.hasSession, h, u, t)
          IN  ~c.hasSession \/ c.session.user = NoUser
                => /\ ~g.allow
                   /\ g.status = 302 <=> (u /\ t # <<>>)
                   /\ g.status = 302 => g.hint = t
                   /\ g.status # 302 => g.status = 401 /\ g.hint = <<>>
                   /\ g.session = c.session)
  /\ [][\A h \in AppHosts, s \in BOOLEAN, t \in TenantIds, u \in BOOLEAN :
          /\ ~s \/ sessions[h].user = NoUser
          /\ InitSession(h, s, t, u, FALSE)
          => /\ tempAuthTokens' = tempAuthTokens
             /\ issued' = issued
             /\ sessions'[h].user = NoUser]_vars

\* the login scope has an empty session after a logout, a token issued before
\* is in the store, and the guard redirects or rejects by route
C28_Witness ==
  /\ sessions[LoginHost].user = NoUser
  /\ WasIssued(1)
  /\ 1 \in DOMAIN tempAuthTokens
  /\ LoginSessionGuard(AttachSession(sessions[LoginHost]), TRUE, LoginHost, TRUE,
                       Acme).status = 302
  /\ LoginSessionGuard(AttachSession(sessions[LoginHost]), TRUE, LoginHost, TRUE,
                       <<>>).status = 401
  /\ LoginSessionGuard(sessions[LoginHost], FALSE, LoginHost, FALSE,
                       Acme).status = 401

\* C29: on a request whose session has a user the login guard allows only on
\* the login host; on every other host, a tenant host among them, it rejects
\* with 401 whatever the route.
C29_LoginHostOnly ==
  \A h \in Hosts, t \in TenantParams, u \in BOOLEAN :
    LET c == Enter(h, TRUE, FALSE)
        g == LoginSessionGuard(c.session, c.hasSession, h, u, t)
    IN  c.session.user # NoUser
          => /\ g.allow => h = LoginHost
             /\ h # LoginHost => ~g.allow /\ g.status = 401

\* C30: the rejection the tenant guard answers with tells its kind: 'No
\* session found' without session object, 'User not authenticated' on a
\* session without user, 'Session expired due to inactivity' on an idle
\* session, 'Tenant mismatch' on a host that is not the host of the session's
\* tenant; every rejection is answered with 401.
C30_SubKindsReported ==
  \A h \in Hosts, s \in BOOLEAN :
    LET c == Enter(h, s, FALSE)
        g == Guard(h, s)
        idle == IdleExpired(c.session.lastAccess, now)
    IN  /\ ~g.allow => g.status = 401
        /\ ~s => ~g.allow /\ g.message = MsgNoSession
        /\ s /\ c.session.user = NoUser
             => ~g.allow /\ g.message = MsgNotAuthenticated
        /\ s /\ c.session.user # NoUser /\ idle
             => ~g.allow /\ g.message = MsgSessionExpired
        /\ s /\ c.session.user # NoUser /\ ~idle /\ h # LoginHost
             /\ c.session.user.tenant # <<>> /\ ~IsHostOf(h, c.session.user.tenant)
             => ~g.allow /\ g.message = MsgTenantMismatch

\* a session as the store gives it back when it holds no lastAccess
WithoutLastAccess(session) == [session EXCEPT !.lastAccess = 0]

\* C31: the tenant guard reads a missing lastAccess as no idle time: on a
\* session with a user and without lastAccess, with a tenant or without one,
\* it never rejects for idleness, whatever time has passed, and when it allows
\* the request it leaves the session with lastAccess = now; a request the
\* guard allows on a stored session without lastAccess stores lastAccess = now.
C31_MissingIsZeroIdle ==
  /\ [](\A h \in Hosts :
          LET s == WithoutLastAccess(AttachSession(sessions[h]))
              g == TenantSessionGuard(s, TRUE, h, now)
          IN  s.user # NoUser
                => /\ g.reason # MsgSessionExpired
                   /\ g.allow => g.session = [s EXCEPT !.lastAccess = now]
                   /\ s.user.tenant # <<>> /\ IsHostOf(h, s.user.tenant)
                        => g.allow)
  /\ [][\A h \in AppHosts :
          /\ sessions[h].user # NoUser /\ sessions[h].lastAccess = 0
          /\ Guard(h, TRUE).allow
          /\ Ping(h, TRUE, FALSE)
          => sessions'[h].lastAccess = now]_vars

\* a session bound to the tenant of its host, idle for longer than the
\* timeout by its lastAccess, which the guard allows when lastAccess is missing;
\* and a login session without lastAccess the guard has refreshed after that
\* time
C31_Witness ==
  /\ \E h \in Hosts :
       /\ sessions[h].user.tenant # <<>>
       /\ IsHostOf(h, sessions[h].user.tenant)
       /\ now - sessions[h].lastAccess > IdleTimeout
       /\ ~Guard(h, TRUE).allow
       /\ TenantSessionGuard(WithoutLastAccess(sessions[h]), TRUE, h, now).allow
  /\ sessions[LoginHost].user # NoUser
  /\ sessions[LoginHost].lastAccess = now

\* C32: within one cookie scope a request reads what the requests before it
\* wrote: once a token has been redeemed with success on a host, the session a
\* request on that host is attached to is the one the redemption wrote, with
\* the token's user, the token's tenant and a lastAccess; and a step that is
\* not the redemption of a token on the host leaves the stored session of a
\* bound scope as it is.  (No request of this specification logs out or runs
\* the idle check.)
C32_ReadYourWrites ==
  /\ [](\A k \in Tokens :
          tokenLog[k].ok >= 1
            => LET c == Enter(tokenLog[k].redeemedOn, TRUE, FALSE)
               IN  /\ c.session.user.id = tokenLog[k].id
                   /\ c.session.user.tenant = tokenLog[k].tenantId
                   /\ c.session.lastAccess # 0)
  /\ [][\A h \in AppHosts :
          /\ sessions[h].user.tenant # <<>>
          /\ \A r \in InFlightIds : ~(RunVerify(r) /\ inFlight[r].host = h)
          => sessions'[h] = sessions[h]]_vars

----------------------------------------------------------------------------
(* The redirect of initSession *)

\* the port written in the redirect of initSession
DevPort == 5173

\* req.protocol, and the port after ':' in the Host header (0: none)
RequestSchemes == {"http", "https"}
RequestPorts == {0, 3000, DevPort}

\* auth.controller.ts:
\* `http://${tenantId}.lvh.me:5173/api/tenant/verify-token/${token}`
initSessionTarget(protocol, port, tenantId, token) ==
  [scheme |-> "http", host |-> tenantId \o DotLvhMe, port |-> DevPort,
   path |-> "/api/tenant/verify-token/", token |-> token]

\* part_000: originalPort = req.headers.host?.split(':')[1] || '5173',
\* protocol = req.protocol || 'http',
\* `${protocol}://${tenantId}.lvh.me:${originalPort}/api/tenant/verify-token/${token}`
initSessionTargetPart000(protocol, port, tenantId, token) ==
  [scheme |-> protocol, host |-> tenantId \o DotLvhMe,
   port |-> IF port # 0 THEN port ELSE DevPort,
   path |-> "/api/tenant/verify-token/", token |-> token]

\* C33: when init-session succeeds, the redirect, of either version of the
\* controller, goes to the scheme and the port of the request, to the host <tenantId>.lvh.me of the tenant asked for,
\* and carries the token just stored for the user of the session and that
\* tenant.
C33_RedirectReusesSchemeAndPort ==
  \A t \in TenantIds, u \in BOOLEAN, p \in RequestSchemes, q \in RequestPorts :
    LET c == Enter(LoginHost, TRUE, FALSE)
        g == LoginSessionGuard(c.session, c.hasSession, LoginHost, u, t)
        r == initSession(g.session, t, tempAuthTokens, issued + 1, now)
    IN  g.allow /\ r.status = 301
          => \A target \in {initSessionTarget(p, q, t, r.token),
                             initSessionTargetPart000(p, q, t, r.token)} :
             /\ target.scheme = p /\ target.port = q
             /\ target.host = t \o DotLvhMe
             /\ target.token \in DOMAIN r.tokens
             /\ target.token \notin DOMAIN tempAuthTokens
             /\ r.tokens[target.token].id = c.session.user.id
             /\ r.tokens[target.token].tenantId = t

\* C34: behind the middleware chain every request is answered or reaches its
\* handler, on every host: the router attaches a session on the login host and
\* on the host <tenantId>.lvh.me of every tenant a user holds, and on no host
\* is a request left without next() and without a response.
C34_EveryRequestAnswered ==
  /\ RouterAttaches(LoginHost)
  /\ \A u \in users : \A t \in u.tenants : RouterAttaches(t \o DotLvhMe)
  /\ \A h \in Hosts, s \in BOOLEAN :
       LET c == Enter(h, s, TRUE)
       IN  /\ c.stage \in {"next", "answered"}
           /\ RouterAttaches(h) => c.hasSession \/ c.stage = "answered"

\* C35: a request the tenant guard rejects for a session without tenant or for
\* a tenant that is not the host's leaves lastAccess as it was, in the session
\* of the request and in the store.
C35_RejectedKeepsLastAccess ==
  /\ [](\A h \in Hosts :
          LET c == Enter(h, TRUE, FALSE)
              g == Guard(h, TRUE)
          IN  g.reason \in {MsgNoTenant, MsgTenantMismatch}
                => g.session.lastAccess = c.session.lastAccess)
  /\ [][\A h \in AppHosts :
          /\ Guard(h, TRUE).reason \in {MsgNoTenant, MsgTenantMismatch}
          /\ Ping(h, TRUE, FALSE)
          => sessions'[h].lastAccess = sessions[h].lastAccess]_vars

\* C36: a verification of a token that is in the store, unexpired, on a host
\* that matches its tenant, by a request without session object fails with
\* 'Session not available' and returns the token store and the session as
\* they were; the verify-token request leaves the token store and every stored
\* session unchanged, and the token is still redeemed by a request with a
\* session object; every failed verification but the one of an expired token
\* returns the token store as it was.
C36_NoSessionKeepsToken ==
  /\ [](\A k \in Tokens, h \in Hosts :
          /\ k \in DOMAIN tempAuthTokens
          /\ ~IsExpired(tempAuthTokens[k], now)
          /\ HostMatchesTenant(h, tempAuthTokens[k].tenantId)
          => Redeem(k, h, FALSE) =
               [success |-> FALSE, message |-> MsgNoSessionObject,
                tokens |-> tempAuthTokens, session |-> sessions[h]])
  /\ [](\A k \in Tokens, h \in Hosts, s \in BOOLEAN :
          ~Redeem(k, h, s).success /\ Redeem(k, h, s).message # MsgTokenExpired
            => Redeem(k, h, s).tokens = tempAuthTokens)
  /\ [][\A k \in Tokens, h \in AppHosts :
          /\ Redeem(k, h, FALSE).message = MsgNoSessionObject
          /\ VerifyToken(h, FALSE, k, FALSE)
          => /\ tempAuthTokens' = tempAuthTokens
             /\ sessions' = sessions
             /\ verifyTenantToken(tempAuthTokens', k, h, TRUE,
                                  AttachSession(sessions'[h]), now').success]_vars

\* a token in the store that a request without session object on the host of
\* its tenant is refused with 'Session not available', in a scope without
\* session, and that a request with a session object redeems
C36_Witness ==
  \E k \in Tokens :
    /\ k \in DOMAIN tempAuthTokens
    /\ Redeem(k, AcmeHost, FALSE).message = MsgNoSessionObject
    /\ Redeem(k, AcmeHost, FALSE).tokens = tempAuthTokens
    /\ ~sessions[AcmeHost].exists
    /\ Redeem(k, AcmeHost, TRUE).success

\* C37: a validate-session request on a session bound to a tenant whose
\* lastAccess is more than the idle timeout ago is not answered valid: the
\* idle-timeout middleware answers it 'Session expired', or validateSession
\* answers 401.
C37_IdleNeverValid ==
  \A h \in Hosts :
    LET c == Enter(h, TRUE, FALSE)
        v == validateSession(c.session, c.hasSession)
    IN  c.session.user.tenant # <<>> /\ IdleExpired(c.session.lastAccess, now)
          => \/ IdleMiddlewareExpired(h, c.session, now)
             \/ v.status = 401

\* the session the session middleware attaches to a request on a served host
Attached(h) ==
  IF StoreOutlivesRequest(h) THEN AttachSession(sessions[h]) ELSE EmptySession

EffectRuns ==
  ClientRender(client'.tenantId, client'.idleTime, client'.pingInterval)

\* a step of the browser in which attemptSessionPing sends a ping
PingSent ==
  /\ client'.ping = "sent"
  /\ \/ ClientPingTick
     \/ client'.tenantId # <<>> /\ EffectRuns

\* the last user-activity event is at most activityWindow ago
UserActiveRecently ==
  /\ client.lastEvent # 0
  /\ client.clock - client.lastEvent <= client.activityWindow

Later(a, b) == IF a >= b THEN a ELSE b

\* C39 (as stated): a ping is sent only with a tenant and only if the last
\* user-activity event is at most activityWindow before it; a ping tick at
\* which the user has been inactive for longer sends none; onIdle fires only
\* with a tenant context that has not changed and idleTime after the last
\* user-activity event.
C39_PingOnlyAfterUserActivity ==
  [][/\ PingSent => client'.tenantId # <<>> /\ UserActiveRecently
     /\ ClientPingTick /\ ~UserActiveRecently => client'.ping = "skipped"
     /\ ClientIdleFire
          => /\ client.tenantRef = client.tenantId
             /\ client.lastEvent # 0
                  => client.clock - client.lastEvent >= client.idleTime]_vars

\* C39 (amended): lastActivityRef is the time of the later of the last
\* user-activity event and the last run of the effect; a ping is sent only
\* with a tenant and only if lastActivityRef is at most activityWindow ago; a
\* ping tick at which it is longer ago sends none; every run of the effect
\* with a tenant sends a ping, whatever the user did; onIdle fires only with
\* the tenant of the running effect and idleTime or more after lastActivityRef,
\* hence after the last user-activity event.
C39_PingOnlyAfterRecentStamp ==
  /\ [](client.effectAt # 0
          => client.lastActivityRef = Later(client.lastEvent, client.effectAt))
  /\ [](client.pingIntervalRef # 0 => client.mounted /\ client.tenantId # <<>>)
  /\ [][/\ PingSent
             => /\ client'.tenantId # <<>>
                /\ client'.clock - client'.lastActivityRef
                     <= client'.activityWindow
        /\ ClientPingTick
             => IF client.clock - client.lastActivityRef > client.activityWindow
                THEN client'.ping = "skipped"
                ELSE client'.ping = "sent"
        /\ client'.tenantId # <<>> /\ EffectRuns
             => client'.ping = "sent" /\ client'.pingAt = client.clock
        /\ ClientIdleFire
             => /\ client.tenantRef = client.tenantId
                /\ client'.idleAt = client.clock
                /\ client.clock - client.lastActivityRef >= client.idleTime
                /\ client.lastEvent # 0
                     => client.clock - client.lastEvent >= client.idleTime]_vars

\* a ping tick of the default interval has sent a ping after a user-activity
\* event within the window, and onIdle fired afterwards
C39_Witness ==
  /\ client.pingInterval = DefaultPingInterval
  /\ client.ping = "sent" /\ client.pingCause = "tick"
  /\ client.lastEvent > client.effectAt
  /\ client.pingAt - client.lastEvent <= client.activityWindow
  /\ client.idleAt > client.pingAt

====
